---------------------------- MODULE Spec2Model ----------------------------
(***************************************************************************)
(* Model of the closed-loop electrode / current search of mms_prototype.   *)
(*                                                                         *)
(* The repository holds five revisions of the BluetoothProvider component. *)
(* Each revision is one deployable program; the revision that is running   *)
(* is the variable `ver`, fixed in Init:                                   *)
(*   "ctx1"  src/src/BluetoothContext.tsx lines 1-527     (washout SES)    *)
(*   "ctx2"  src/src/BluetoothContext.tsx lines 528-864   (local search)   *)
(*   "ctx3"  src/src/BluetoothContext.tsx lines 865-1492  (wavelet, usage) *)
(*   "part1" src/unnamed/part_001                         (pure SES)       *)
(*   "part2" src/unnamed/part_002                         (score gap)      *)
(*                                                                         *)
(* JavaScript runs one task at a time, so an action of this model is the   *)
(* code that runs between two awaits of one handler: the resumption of a   *)
(* run after a timer, a characteristic write or the export request, or the *)
(* call of stopOptimizationLoop / runOptimizationLoop from the UI.         *)
(*                                                                         *)
(* Numbers: currents are kept in units of 1/UnitsPerMilliamp mA, because   *)
(* minCurrent and maxCurrent are JavaScript numbers and need not be whole. *)
(* Scores are non-negative integers, averages are exact fractions [n, d].  *)
(***************************************************************************)
EXTENDS Integers, Sequences, FiniteSets, TLC

(***************************************************************************)
(* Program constants                                                       *)
(***************************************************************************)
numElectrodes == 9
UnitsPerMilliamp == 2
MinUsagePart2 == 7
MinUsageCtx3 == 9
NumIterationsPart2 == 100
NumIterationsCtx3 == 80
NumIterationsCtx1 == 50
NumIterationsPart1 == 50
GradientStabilityThreshold10 == 150
ConsecutiveStableCount == 3
InitialStableGradientCount == 3
TriesBeforeIncrement == 3
Ctx3PairThreshold10 == 200
Ctx3FinalThreshold10 == 400
BestPairStableThreshold == 5
Ctx2VariationThreshold == 5
StabilityThresholdPart1 == 5
Part1ActivationLow10 == 1
Part1ActivationStable10 == 3
PerformanceMargin100 == 5

\* windowSize of the Phase 2 loops, the levels of the Haar transform, and the
\* gain of nonlinearTransform
WindowSizePart2 == 10
WindowSizeCtx3 == 8
WaveletLevels == 3
TransformGain == 1

(***************************************************************************)
(* Bounds of the exploration (not program constants)                       *)
(***************************************************************************)
MaxSurvey == 45
MaxSurveyReentry == 3
MaxStops == 1
MaxNoise10 == 400
MaxPerturbations == 2
MaxArrived == 1200
MaxNotifications == 4
MaxDeliveries == 2

Versions == {"ctx1", "ctx2", "ctx3", "part1", "part2"}
Slots == {1, 2}
Electrodes == 1 .. numElectrodes

Min(a, b) == IF a <= b THEN a ELSE b
Max(a, b) == IF a >= b THEN a ELSE b

(***************************************************************************)
(* Exact fractions: [n |-> numerator, d |-> denominator], d > 0            *)
(***************************************************************************)
RECURSIVE GCD(_, _)
GCD(a, b) == IF b = 0 THEN a ELSE GCD(b, a % b)

Abs(x) == IF x < 0 THEN -x ELSE x

Q(n, d) == LET g == GCD(Abs(n), d) IN [n |-> n \div g, d |-> d \div g]

QZero == [n |-> 0, d |-> 1]

QAdd(x, y) == Q(x.n * y.d + y.n * x.d, x.d * y.d)

QDivInt(x, k) == Q(x.n, x.d * k)

QLess(x, y) ==
  LET g == GCD(x.d, y.d) IN x.n * (y.d \div g) < y.n * (x.d \div g)

(***************************************************************************)
(* Pair enumeration: the nested loops of runOptimizationLoop               *)
(***************************************************************************)
RECURSIVE RowPairs(_, _, _)
RowPairs(i, j, n) ==
  IF j > n THEN << >> ELSE << <<i, j>> >> \o RowPairs(i, j + 1, n)

\* variant: the inner loop starts at j = i
RECURSIVE GeneratePairsFromSelf(_, _)
GeneratePairsFromSelf(i, n) ==
  IF i > n THEN << >> ELSE RowPairs(i, i, n) \o GeneratePairsFromSelf(i + 1, n)

RECURSIVE GeneratePairs(_, _)
GeneratePairs(i, n) ==
  IF i > n THEN << >> ELSE RowPairs(i, i + 1, n) \o GeneratePairs(i + 1, n)

electrodePairs == GeneratePairs(1, numElectrodes)

numPairs == Len(electrodePairs)

(***************************************************************************)
(* Pair-index perturbation.  noise10 is 10 * eta_noise * numPairs, so the  *)
(* clamp is applied to a fractional value before Math.floor, as in the     *)
(* code.  Indices are 0-based as in the code.                              *)
(***************************************************************************)
FloorDiv(a, b) == a \div b

\* variant: Math.floor without the Math.max(0, ...)
PerturbIndexUnclampedBelow(currentPairIndex, noise10) ==
  FloorDiv(Min(10 * (numPairs - 1), 10 * currentPairIndex + noise10), 10)

PerturbIndex(currentPairIndex, noise10) ==
  FloorDiv(Max(0, Min(10 * (numPairs - 1), 10 * currentPairIndex + noise10)), 10)

PairAt(index) == electrodePairs[index + 1]

(***************************************************************************)
(* Electrode statistics tracker                                            *)
(***************************************************************************)
createElectrodeStatsTracker(n) ==
  [e \in 1 .. n |->
     [usage |-> 0, aggregatedScore |-> 0, scores |-> << >>, averageScore |-> QZero]]

\* variant: the average is taken before the new score is added
UpdateOneStaleAverage(tracker, electrode, pairScore) ==
  LET old == tracker[electrode]
      usage == old.usage + 1
  IN [tracker EXCEPT ![electrode] =
        [usage |-> usage,
         aggregatedScore |-> old.aggregatedScore + pairScore,
         scores |-> Append(old.scores, pairScore),
         averageScore |-> Q(old.aggregatedScore, usage)]]

\* variant: the score history keeps the latest score only
UpdateOneLatestScoreOnly(tracker, electrode, pairScore) ==
  LET old == tracker[electrode]
      usage == old.usage + 1
      agg == old.aggregatedScore + pairScore
  IN [tracker EXCEPT ![electrode] =
        [usage |-> usage,
         aggregatedScore |-> agg,
         scores |-> << pairScore >>,
         averageScore |-> IF usage > 0 THEN Q(agg, usage) ELSE QZero]]

UpdateOne(tracker, electrode, pairScore) ==
  LET old == tracker[electrode]
      usage == old.usage + 1
      agg == old.aggregatedScore + pairScore
  IN [tracker EXCEPT ![electrode] =
        [usage |-> usage,
         aggregatedScore |-> agg,
         scores |-> Append(old.scores, pairScore),
         averageScore |-> IF usage > 0 THEN Q(agg, usage) ELSE QZero]]

\* variant: only the first electrode of the pair is recorded
UpdateFirstElectrodeOnly(tracker, pair, pairScore) ==
  UpdateOne(tracker, pair[1], pairScore)

\* variant: the score is recorded for every electrode
UpdateEveryElectrode(tracker, pair, pairScore) ==
  [e \in DOMAIN tracker |-> UpdateOne(tracker, e, pairScore)[e]]

updateElectrodeStats(tracker, pair, pairScore) ==
  UpdateOne(UpdateOne(tracker, pair[1], pairScore), pair[2], pairScore)

\* variant: the gate opens as soon as one electrode has the minimum usage
SomeElectrodeTriedMinimumTimes(tracker, minUsage) ==
  \E e \in DOMAIN tracker : tracker[e].usage >= minUsage

AllElectrodesTriedMinimumTimes(tracker, minUsage) ==
  \A e \in DOMAIN tracker : tracker[e].usage >= minUsage

(***************************************************************************)
(* Ranking: Object.entries lists the electrodes in ascending id order and  *)
(* Array.prototype.sort is stable, so ties keep the smaller id first.      *)
(***************************************************************************)
RECURSIVE InsertSorted(_, _, _)
InsertSorted(sorted, e, tracker) ==
  IF sorted = << >> THEN << e >>
  ELSE IF QLess(tracker[Head(sorted)].averageScore, tracker[e].averageScore)
       THEN << e >> \o sorted
       ELSE << Head(sorted) >> \o InsertSorted(Tail(sorted), e, tracker)

RECURSIVE SortFrom(_, _)
SortFrom(e, tracker) ==
  IF e < 1 THEN << >>
  ELSE InsertSorted(SortFrom(e - 1, tracker), e, tracker)

sortedElectrodes(tracker) == SortFrom(numElectrodes, tracker)

RECURSIVE SumAverages(_, _)
SumAverages(list, tracker) ==
  IF list = << >> THEN QZero
  ELSE QAdd(tracker[Head(list)].averageScore, SumAverages(Tail(list), tracker))

mean(list, tracker) ==
  IF list = << >> THEN QZero ELSE QDivInt(SumAverages(list, tracker), Len(list))

Margin == [n |-> 7, d |-> 2]

top4(sorted) == SubSeq(sorted, 1, Min(4, Len(sorted)))

rest(sorted) == SubSeq(sorted, Min(4, Len(sorted)) + 1, Len(sorted))

scoreGapCondition(tracker) ==
  LET sorted == sortedElectrodes(tracker)
  IN QLess(QAdd(mean(rest(sorted), tracker), Margin), mean(top4(sorted), tracker))

(***************************************************************************)
(* Command encoding.  An argument of sendCommand is a string               *)
(* [str |-> <<chars>>] or a number [num |-> a, den |-> b] (the value a/b). *)
(***************************************************************************)
S(chars) == [str |-> chars]

N(a, b) == [num |-> a, den |-> b]

IsString(arg) == "str" \in DOMAIN arg

CharCode(ch) ==
  CASE ch = "e" -> 101 [] ch = "b" -> 98 [] ch = "B" -> 66 [] ch = "s" -> 115
    [] ch = "0" -> 48 [] ch = "1" -> 49 [] ch = "2" -> 50 [] ch = "3" -> 51
    [] ch = "4" -> 52 [] ch = "5" -> 53 [] ch = "6" -> 54 [] ch = "7" -> 55
    [] ch = "8" -> 56 [] ch = "9" -> 57
    [] ch = "f" -> 102 [] ch = "d" -> 100 [] ch = "o" -> 111 [] ch = "O" -> 79
    [] ch = "r" -> 114 [] ch = "R" -> 82 [] OTHER -> 63

Digits == {"0", "1", "2", "3", "4", "5", "6", "7", "8", "9"}

IsNumericString(chars) ==
  /\ chars # << >>
  /\ \A i \in 1 .. Len(chars) : chars[i] \in Digits

RECURSIVE ParseInt(_)
ParseInt(chars) ==
  IF chars = << >> THEN 0
  ELSE 10 * ParseInt(SubSeq(chars, 1, Len(chars) - 1))
       + (CharCode(chars[Len(chars)]) - 48)

\* A number stored into a Uint8Array, or `arg & 0xFF`: the fraction is dropped
\* and the value wraps at 256 (the numbers here are never negative).
ToUint8(arg) == (arg.num \div arg.den) % 256

RECURSIVE CharCodes(_)
CharCodes(chars) ==
  IF chars = << >> THEN << >> ELSE << CharCode(Head(chars)) >> \o CharCodes(Tail(chars))

\* sendCommand of ctx1, ctx3, part2: flatMap, numbers as raw bytes, strings as ASCII
RECURSIVE EncodeRaw(_)
EncodeRaw(args) ==
  IF args = << >> THEN << >>
  ELSE (IF IsString(Head(args)) THEN CharCodes(Head(args).str)
        ELSE << ToUint8(Head(args)) >>) \o EncodeRaw(Tail(args))

\* sendCommand of ctx2, part1: numeric strings parsed, other strings charCodeAt(0)
RECURSIVE EncodeParsed(_)
EncodeParsed(args) ==
  IF args = << >> THEN << >>
  ELSE << (IF IsString(Head(args))
           THEN (IF IsNumericString(Head(args).str)
                 THEN ParseInt(Head(args).str) % 256
                 ELSE CharCode(Head(args).str[1]))
           ELSE ToUint8(Head(args))) >> \o EncodeParsed(Tail(args))

CommandBytes(version, args) ==
  IF version \in {"ctx2", "part1"} THEN EncodeParsed(args) ELSE EncodeRaw(args)

\* The arguments of the stimulate command, as each revision passes them
StimulateArgs(version, current, pair) ==
  IF version \in {"ctx2", "part1"}
  THEN << S(<<"e">>), N(current, UnitsPerMilliamp), N(pair[1], 1), N(pair[2], 1),
          S(<<"1">>), S(<<"0">>) >>
  ELSE << S(<<"e">>), N(current, UnitsPerMilliamp), N(pair[1], 1), N(pair[2], 1),
          N(1, 1), N(0, 1) >>

\* stopStimulation: sendCommand("e", "0", "0", "0", "0", "0")
StopStimulationArgs ==
  << S(<<"e">>), S(<<"0">>), S(<<"0">>), S(<<"0">>), S(<<"0">>), S(<<"0">>) >>

StartIMUArgs == << S(<<"b">>) >>

(***************************************************************************)
(* The environment: the muscle response to a stimulated pair and the       *)
(* outcomes of Math.random() that move the pair index in Phase 2.          *)
(***************************************************************************)
Profiles == {"zero", "flat", "hot35", "hot5"}

Activation(prof, pair) ==
  CASE prof = "zero" -> 0
    [] prof = "flat" -> 5
    [] prof = "hot35" -> IF pair[1] \in {3, 5} \/ pair[2] \in {3, 5} THEN 50 ELSE 5
    [] prof = "hot5" -> IF pair[1] = 5 \/ pair[2] = 5 THEN 50 ELSE 5

\* 10 * eta_noise * numPairs for successive draws; sqrt(qVariance)/2 * numPairs
\* is larger than 15 in every revision, so each value can be drawn.
ScriptCycle == << 85, 134, 90, 57, -15, -70, -110, -80, -65 >>
ScriptStay == << 0 >>

\* from pair index 0 the survey visits (2,4) (3,5) (4,6) (8,9) (7,8) (6,7)
\* (3,5) (1,9) (1,2) and again: electrodes 3 and 5 only ever together
ScriptPairs35 == << 95, 75, 65, 135, -15, -25, -135, -85, -65 >>

Scripts == {"cycle", "stay", "pairs35"}

ScriptOf(name) ==
  IF name = "cycle" THEN ScriptCycle
  ELSE IF name = "pairs35" THEN ScriptPairs35 ELSE ScriptStay

NoiseAt(name, draws) == ScriptOf(name)[(draws % Len(ScriptOf(name))) + 1]

Phase1Noise == {0, -150}

EtaLevels == {0, 3, 30}

CurrentDeltas == {-1, 0, 1}

StartIndices == {0, 15}

ScoreLevels == {0, 100}

EtaRounds == {0, 1}

\* What the closure of runOptimizationLoop sees of imuData in ctx2 and part1:
\* the state value of the render that created the closure, the same in every
\* iteration.  level is |mean(imu1) - mean(imu2)|, better is
\* newActivation > prevActivation.
EmptyIMU == [empty |-> TRUE, level |-> 0, better |-> FALSE]

\* imuData as the closure sees it: part1 compares the level (in tenths) with
\* 0.1 and 0.3, ctx2 adds it (in current units) to the intensity
IMUSnapshots(version) ==
  {EmptyIMU} \cup
  (IF version = "part1"
   THEN {[empty |-> FALSE, level |-> l, better |-> b] : l \in {0, 3}, b \in BOOLEAN}
   ELSE IF version = "ctx2"
        THEN {[empty |-> FALSE, level |-> l, better |-> FALSE] : l \in {4, 12}}
        ELSE {})

\* the scenarios with a second invocation keep minCurrent = maxCurrent
CurrentRanges(version, invocations) ==
  IF invocations > 1 THEN { <<16, 16>> }
  ELSE IF version = "part1" THEN { <<16, 16>>, <<2, 6>> }
  ELSE IF version = "ctx1" THEN { <<16, 16>>, <<2, 5>> }
  ELSE IF version = "ctx2" THEN { <<16, 16>>, <<2, 5>>, <<2, 30>> }
  ELSE IF version = "part2" THEN { <<16, 16>>, <<2, 6>>, <<2, 5>>, <<6, 2>> }
  ELSE { <<16, 16>>, <<2, 6>>, <<2, 5>> }

(***************************************************************************)
(* State                                                                   *)
(***************************************************************************)
VARIABLES
  ver,                       \* the revision that is deployed
  env,                       \* [profile, script, cap, starts]
  rxCharacteristic,          \* TRUE when the write characteristic is present
  txCharacteristic,          \* TRUE when the notify characteristic is present
  isOptimizationRunningRef,  \* isOptimizationRunningRef.current
  runs,                      \* the invocations of runOptimizationLoop, by slot
  lastCmd,                   \* the last command handed to writeValue
  stops,                     \* calls of stopOptimizationLoop from the UI so far
  starts,                    \* calls of runOptimizationLoop from the UI so far
  link,                      \* [up, runs]: the GATT link, and the runs it was lost under
  scoring,                   \* [stage, window, result]: a window being scored
  imuData,                   \* [imu1_changes, imu2_changes], and how many samples arrived
  provider                   \* listeners of the TX characteristic, initializeDevice

vars == << ver, env, rxCharacteristic, txCharacteristic, isOptimizationRunningRef,
           runs, lastCmd, stops, starts, link, scoring, imuData, provider >>

\* bestScore starts at -Infinity (ctx1)
NegInfinity == -1000000

\* No window is under study.
maxHistory == 500

NoScoring == [stage |-> "off", window |-> << >>, result |-> [nan |-> FALSE, sign |-> 0]]

\* The link of a connected device; runs is filled when the link is lost.
LinkUp == [up |-> TRUE, runs |-> {}, isConnected |-> TRUE, manual |-> FALSE]

NoCmd == [kind |-> "none", bytes |-> << >>, by |-> 0]

NoBest == [set |-> FALSE, pair |-> <<0, 0>>, current |-> 0]

\* The locals of one invocation of runOptimizationLoop, and what it reported.
\* pc is the await the invocation is suspended at.
IdleRun ==
  [pc |-> "idle", minCurrent |-> 0, maxCurrent |-> 0, I_k |-> 0,
   currentPairIndex |-> 0, pair |-> <<1, 2>>, iteration |-> 0,
   stableGradientCount |-> 0, triesAtCurrentLevel |-> 0, bestPairFound |-> FALSE,
   bestPair |-> <<1, 2>>, bestScore |-> NegInfinity, bestIntensity |-> 0,
   bestPairIndex |-> 0, perturbedIndex |-> 0, reportIndex |-> 0,
   stabilityCounter |-> 0, bestPairStableCount |-> 0, currentStable |-> FALSE,
   imu |-> EmptyIMU, draws |-> 0,
   statsTracker |-> createElectrodeStatsTracker(0),
   phase |-> 0, surveyed |-> 0, stimulatedPhase1 |-> FALSE,
   best |-> NoBest, bestPairCalls |-> 0, bestCurrentCalls |-> 0,
   shownCurrent |-> -1, sentCurrent |-> -1, exported |-> "none",
   body |-> createElectrodeStatsTracker(0),
   cancelled |-> FALSE, stimAfterCancel |-> FALSE, bestAfterCancel |-> FALSE]

Active(run) == run.pc \notin {"idle", "done", "crashed"}

WritePcs == {"startIMU", "p1Write", "p2Write", "finalStop", "loopWrite", "stopWrite"}

TimerPcs == {"initDelay", "p1Settle", "p2Settle", "preDelay", "loopSettle"}

(***************************************************************************)
(* A context is what one resumption of an invocation reads and writes:     *)
(* its own locals, the shared run flag and the command channel.            *)
(***************************************************************************)
Ctx(r) ==
  [id |-> r, run |-> runs[r], running |-> isOptimizationRunningRef, cmd |-> lastCmd]

\* sendCommand: nothing is written when the RX characteristic is missing
sendCommand(c, kind, args) ==
  IF ~rxCharacteristic THEN c
  ELSE [c EXCEPT !.cmd = [kind |-> kind, bytes |-> CommandBytes(ver, args), by |-> c.id]]

stopStimulation(c) == sendCommand(c, "disable", StopStimulationArgs)

\* stopOptimizationLoop, up to its await of the write
\* variant: the run flag is left as it is
StopWithoutClearingFlag(c) == stopStimulation(c)

stopOptimizationLoop(c) == stopStimulation([c EXCEPT !.running = FALSE])

\* sendCommand("e", I_k, pair[0], pair[1], 1, 0) and the await that follows:
\* the invocation waits for the write, or goes on when nothing was written.
SendStimulate(c, current, pair, pcWrite, pcNext) ==
  LET sent == sendCommand(c, "stim", StimulateArgs(ver, current, pair))
  IN [sent EXCEPT
        !.run.pc = IF rxCharacteristic THEN pcWrite ELSE pcNext,
        !.run.stimulatedPhase1 = @ \/ (rxCharacteristic /\ c.run.phase = 1),
        !.run.sentCurrent = IF rxCharacteristic THEN sent.cmd.bytes[2] ELSE @,
        !.run.stimAfterCancel = @ \/ (rxCharacteristic /\ c.run.cancelled)]

updateBestPair(c, pair) ==
  [c EXCEPT !.run.best.set = TRUE, !.run.best.pair = pair,
            !.run.bestPairCalls = @ + 1,
            !.run.bestAfterCancel = @ \/ c.run.cancelled]

updateBestCurrent(c, current) ==
  [c EXCEPT !.run.best.current = current,
            !.run.bestCurrentCalls = @ + 1,
            !.run.bestAfterCancel = @ \/ c.run.cancelled]

updateCurrentValue(c, current) == [c EXCEPT !.run.shownCurrent = current]

(***************************************************************************)
(* part2 and ctx3: Phase 2, export, final stop                             *)
(***************************************************************************)
MinUsage == IF ver = "ctx3" THEN MinUsageCtx3 ELSE MinUsagePart2

\* await stopOptimizationLoop() at the end of runOptimizationLoop
FinalStop(c) ==
  LET s == stopOptimizationLoop(c)
  IN [s EXCEPT !.run.pc = IF rxCharacteristic THEN "finalStop" ELSE "done"]

\* variant: the tracker is emptied when it is handed to the export
ExportClearingTracker(c) ==
  [c EXCEPT !.run.pc = "export",
            !.run.body = c.run.statsTracker,
            !.run.statsTracker = createElectrodeStatsTracker(numElectrodes)]

\* the fetch of /save-electrode-stats, inside try/catch; its body is
\* JSON.stringify(statsTracker), evaluated when fetch is called
Export(c) == [c EXCEPT !.run.pc = "export", !.run.body = c.run.statsTracker]

\* variant: a cancelled run goes to its final stop without the export
Phase2HeadSkippingExport(c) ==
  IF c.running
  THEN LET index == PerturbIndex(c.run.currentPairIndex,
                                 NoiseAt(env.script, c.run.draws))
           lockedPair == PairAt(index)
           c1 == [c EXCEPT !.run.currentPairIndex = index,
                           !.run.pair = lockedPair,
                           !.run.draws = @ + 1]
       IN SendStimulate(c1, c.run.I_k, lockedPair, "p2Write", "p2Settle")
  ELSE FinalStop(c)

\* variant: each Phase 2 iteration raises the current like Phase 1 does
Phase2HeadRaisingCurrent(c) ==
  IF c.running
  THEN LET index == PerturbIndex(c.run.currentPairIndex,
                                 NoiseAt(env.script, c.run.draws))
           lockedPair == PairAt(index)
           c1 == [c EXCEPT !.run.I_k = Min(c.run.maxCurrent, @ + UnitsPerMilliamp),
                           !.run.currentPairIndex = index,
                           !.run.pair = lockedPair,
                           !.run.draws = @ + 1]
       IN SendStimulate(c1, c1.run.I_k, lockedPair, "p2Write", "p2Settle")
  ELSE Export(c)

\* head of `while (isOptimizationRunningRef.current)`
Phase2Head(c) ==
  IF c.running
  THEN LET index == PerturbIndex(c.run.currentPairIndex,
                                 NoiseAt(env.script, c.run.draws))
           lockedPair == PairAt(index)
           c1 == [c EXCEPT !.run.currentPairIndex = index,
                           !.run.pair = lockedPair,
                           !.run.draws = @ + 1]
       IN SendStimulate(c1, c.run.I_k, lockedPair, "p2Write", "p2Settle")
  ELSE Export(c)

\* the stopping test of Phase 2
DeclaresWinner(tracker) ==
  /\ AllElectrodesTriedMinimumTimes(tracker, MinUsage)
  /\ Len(sortedElectrodes(tracker)) >= 6
  /\ (ver = "part2" => scoreGapCondition(tracker))

\* after the settling delay of a Phase 2 iteration
\* variant: the winner is made of the first and the third of the ranking
Phase2EvalFirstAndThird(c) ==
  LET lockedPair == c.run.pair
      pairScore == Activation(env.profile, lockedPair)
      tracker == updateElectrodeStats(c.run.statsTracker, lockedPair, pairScore)
      c1 == [c EXCEPT !.run.statsTracker = tracker, !.run.surveyed = @ + 1]
      sorted == sortedElectrodes(tracker)
  IN IF DeclaresWinner(tracker)
     THEN Export(updateBestCurrent(
                   updateBestPair(c1, << sorted[1], sorted[3] >>), c1.run.I_k))
     ELSE Phase2Head(c1)

Phase2Eval(c) ==
  LET lockedPair == c.run.pair
      pairScore == Activation(env.profile, lockedPair)
      tracker == updateElectrodeStats(c.run.statsTracker, lockedPair, pairScore)
      c1 == [c EXCEPT !.run.statsTracker = tracker, !.run.surveyed = @ + 1]
      sorted == sortedElectrodes(tracker)
  IN IF DeclaresWinner(tracker)
     THEN Export(updateBestCurrent(
                   updateBestPair(c1, << sorted[1], sorted[2] >>), c1.run.I_k))
     ELSE Phase2Head(c1)

\* `const statsTracker = createElectrodeStatsTracker(numElectrodes)` and the
\* first test of the while loop.  The locals of Phase 1 are dead from here.
Phase2Enter(c) ==
  Phase2Head([c EXCEPT !.run.statsTracker = createElectrodeStatsTracker(numElectrodes),
                       !.run.phase = 2,
                       !.run.iteration = 0,
                       !.run.stableGradientCount = 0,
                       !.run.triesAtCurrentLevel = 0,
                       !.run.bestPairFound = FALSE,
                       !.run.bestPair = <<1, 2>>])

(***************************************************************************)
(* part2: Phase 1                                                          *)
(***************************************************************************)
Part2Phase1Head(c, in) ==
  IF c.run.iteration < NumIterationsPart2 /\ c.running
  THEN LET index == PerturbIndex(c.run.currentPairIndex, in.noise10)
           newPair == PairAt(index)
           c1 == [c EXCEPT !.run.currentPairIndex = index, !.run.pair = newPair,
                           !.run.phase = 1]
       IN SendStimulate(c1, c.run.I_k, newPair, "p1Write", "p1Settle")
  ELSE Phase2Enter(c)

\* variant: the current is raised by two milliamps
IncrementCurrentByTwo(I_k, maxCurrent) == Min(maxCurrent, I_k + 2 * UnitsPerMilliamp)

IncrementCurrent(I_k, maxCurrent) == Min(maxCurrent, I_k + UnitsPerMilliamp)

\* variant: the for loop does not count its iterations
Part2Phase1EvalUncounted(c, in) ==
  LET gradientEstimate10 == in.eta10 * Activation(env.profile, c.run.pair)
      tries == c.run.triesAtCurrentLevel + 1
      isStable == gradientEstimate10 >= GradientStabilityThreshold10
      stable == IF isStable THEN c.run.stableGradientCount + 1 ELSE 0
      c1 == [c EXCEPT !.run.triesAtCurrentLevel = tries,
                      !.run.stableGradientCount = stable]
  IN IF isStable /\ stable >= ConsecutiveStableCount
     THEN Phase2Enter(c1)
     ELSE IF tries >= TriesBeforeIncrement /\ stable = 0
          THEN IF c.run.I_k >= c.run.maxCurrent
               THEN Phase2Enter(c1)
               ELSE LET I_k == IncrementCurrent(c.run.I_k, c.run.maxCurrent)
                        c2 == updateCurrentValue(
                                [c1 EXCEPT !.run.I_k = I_k,
                                           !.run.triesAtCurrentLevel = 0], I_k)
                    IN Part2Phase1Head(c2, in)
          ELSE Part2Phase1Head(c1, in)

Part2Phase1Eval(c, in) ==
  LET gradientEstimate10 == in.eta10 * Activation(env.profile, c.run.pair)
      tries == c.run.triesAtCurrentLevel + 1
      isStable == gradientEstimate10 >= GradientStabilityThreshold10
      stable == IF isStable THEN c.run.stableGradientCount + 1 ELSE 0
      c1 == [c EXCEPT !.run.triesAtCurrentLevel = tries,
                      !.run.stableGradientCount = stable]
  IN IF isStable /\ stable >= ConsecutiveStableCount
     THEN Phase2Enter(c1)
     ELSE IF tries >= TriesBeforeIncrement /\ stable = 0
          THEN IF c.run.I_k >= c.run.maxCurrent
               THEN Phase2Enter(c1)
               ELSE LET I_k == IncrementCurrent(c.run.I_k, c.run.maxCurrent)
                        c2 == updateCurrentValue(
                                [c1 EXCEPT !.run.I_k = I_k,
                                           !.run.triesAtCurrentLevel = 0], I_k)
                    IN Part2Phase1Head([c2 EXCEPT !.run.iteration = @ + 1], in)
          ELSE Part2Phase1Head([c1 EXCEPT !.run.iteration = @ + 1], in)

\* after the 500 ms start-up delay
\* variant: Phase 1 is entered whatever the bounds are
Part2AfterInitNoSkip(c, in) ==
  Part2Phase1Head([c EXCEPT !.run.I_k = c.run.minCurrent,
                            !.run.stableGradientCount = InitialStableGradientCount,
                            !.run.triesAtCurrentLevel = 0], in)

Part2AfterInit(c, in) ==
  LET c1 == [c EXCEPT !.run.I_k = c.run.minCurrent,
                      !.run.stableGradientCount = InitialStableGradientCount,
                      !.run.triesAtCurrentLevel = 0]
  IN IF c.run.minCurrent = c.run.maxCurrent
     THEN Phase2Enter(c1)
     ELSE Part2Phase1Head(c1, in)

(***************************************************************************)
(* ctx3: Phase 1                                                           *)
(***************************************************************************)
\* Math.round of a value given in current units (round half up)
MathRound(h) ==
  ((2 * h + UnitsPerMilliamp) \div (2 * UnitsPerMilliamp)) * UnitsPerMilliamp

\* Math.round(Math.max(minCurrent, Math.min(maxCurrent, value)))
RoundClampCurrent(value, minCurrent, maxCurrent) ==
  MathRound(Max(minCurrent, Min(maxCurrent, value)))

Ctx3Phase1Head(c, in) ==
  IF c.run.iteration < NumIterationsCtx3 /\ c.running
  THEN LET index1 == PerturbIndex(c.run.currentPairIndex, in.noise10)
       IN IF ~c.run.bestPairFound
          THEN LET index2 == PerturbIndex(index1, in.noise10b)
                   newPair == PairAt(index2)
                   I_k == RoundClampCurrent(c.run.I_k + in.delta,
                                            c.run.minCurrent, c.run.maxCurrent)
                   c1 == updateCurrentValue(
                           [c EXCEPT !.run.currentPairIndex = index2,
                                     !.run.pair = newPair,
                                     !.run.bestPair = newPair,
                                     !.run.I_k = I_k,
                                     !.run.phase = 1], I_k)
               IN SendStimulate(c1, I_k, newPair, "p1Write", "p1Settle")
          ELSE IF c.run.I_k >= c.run.maxCurrent
               THEN Phase2Enter([c EXCEPT !.run.currentPairIndex = index1])
               ELSE LET I_k == IncrementCurrent(c.run.I_k, c.run.maxCurrent)
                        c1 == updateCurrentValue(
                                [c EXCEPT !.run.currentPairIndex = index1,
                                          !.run.pair = c.run.bestPair,
                                          !.run.I_k = I_k,
                                          !.run.phase = 1], I_k)
                    IN SendStimulate(c1, I_k, c.run.bestPair, "p1Write", "p1Settle")
  ELSE Phase2Enter(c)

Ctx3Phase1Eval(c, in) ==
  LET performance10 == in.eta10 * Activation(env.profile, c.run.pair)
      found == c.run.bestPairFound \/ performance10 >= Ctx3PairThreshold10
      c1 == [c EXCEPT !.run.bestPairFound = found]
  IN IF found /\ performance10 >= Ctx3FinalThreshold10
     THEN Phase2Enter(c1)
     ELSE Ctx3Phase1Head([c1 EXCEPT !.run.iteration = @ + 1], in)

Ctx3AfterInit(c, in) ==
  LET c1 == [c EXCEPT !.run.I_k = c.run.minCurrent]
  IN IF c.run.minCurrent = c.run.maxCurrent
     THEN Phase2Enter(c1)
     ELSE Ctx3Phase1Head(c1, in)

(***************************************************************************)
(* ctx1 and part1: `await stopOptimizationLoop()` followed by the report   *)
(* of the winner                                                           *)
(***************************************************************************)
ReportBest(c) ==
  [updateBestCurrent(updateBestPair(c, PairAt(c.run.reportIndex)), c.run.I_k)
     EXCEPT !.run.pc = "done"]

StopThenReport(c, index) ==
  LET s == stopOptimizationLoop([c EXCEPT !.run.reportIndex = index])
  IN IF rxCharacteristic THEN [s EXCEPT !.run.pc = "stopWrite"] ELSE ReportBest(s)

(***************************************************************************)
(* part1                                                                   *)
(***************************************************************************)
Part1LoopHead(c) ==
  IF c.run.iteration < NumIterationsPart1 /\ c.running
  THEN [c EXCEPT !.run.pc = "preDelay", !.run.phase = 1]
  ELSE StopThenReport(c, c.run.currentPairIndex)

\* after the 500 ms delay at the top of an iteration; etaRound is
\* Math.round(currentPairIndex + eta) - currentPairIndex
Part1AfterPreDelay(c, in) ==
  LET perturbedIndex ==
        Max(0, Min(numPairs - 1, c.run.currentPairIndex + in.etaRound))
      newPair == PairAt(perturbedIndex)
      counter == IF c.run.imu.better THEN c.run.stabilityCounter + 1 ELSE 0
      switch == c.run.imu.better /\ counter >= StabilityThresholdPart1
      low == c.run.imu.level < Part1ActivationLow10 /\ ~c.run.currentStable
      I_k == IF low THEN Min(c.run.I_k + UnitsPerMilliamp, c.run.maxCurrent)
             ELSE c.run.I_k
      c1 == updateCurrentValue(
              [c EXCEPT !.run.perturbedIndex = perturbedIndex,
                        !.run.pair = newPair,
                        !.run.currentPairIndex = IF switch THEN perturbedIndex ELSE @,
                        !.run.stabilityCounter = IF switch THEN 0 ELSE counter,
                        !.run.currentStable =
                           @ \/ (~low /\ c.run.imu.level >= Part1ActivationStable10),
                        !.run.I_k = I_k], I_k)
  IN SendStimulate(c1, I_k, newPair, "loopWrite", "loopSettle")

\* after the 1000 ms delay that follows the stimulate command
Part1AfterSettle(c) ==
  LET count == IF c.run.currentPairIndex = c.run.perturbedIndex
               THEN c.run.bestPairStableCount + 1 ELSE 0
      c1 == [c EXCEPT !.run.bestPairStableCount = count]
  IN IF count >= BestPairStableThreshold
     THEN StopThenReport(c1, c.run.currentPairIndex)
     ELSE IF c.run.I_k >= c.run.maxCurrent
          THEN StopThenReport(c1, c.run.currentPairIndex)
          ELSE Part1LoopHead([c1 EXCEPT !.run.iteration = @ + 1])

(***************************************************************************)
(* ctx1                                                                    *)
(***************************************************************************)
\* Math.round(Math.min(maxCurrent, Math.max(minCurrent, value)))
RoundClampCurrentCtx1(value, minCurrent, maxCurrent) ==
  MathRound(Min(maxCurrent, Max(minCurrent, value)))

\* after the stimulate command of an iteration: score, stability, current
Ctx1AfterWrite(c, in) ==
  LET pairScore == in.score
      good == pairScore >= c.run.bestScore - PerformanceMargin100
      improves == good /\ pairScore > c.run.bestScore
      counter == IF good THEN c.run.stabilityCounter + 1 ELSE 0
      c1 == [c EXCEPT !.run.bestScore = IF improves THEN pairScore ELSE @,
                      !.run.bestPairIndex =
                         IF improves THEN c.run.currentPairIndex ELSE @,
                      !.run.stabilityCounter = counter]
  IN IF counter >= BestPairStableThreshold
     THEN StopThenReport(c1, c1.run.bestPairIndex)
     ELSE LET I_k == RoundClampCurrentCtx1(c.run.I_k + in.delta,
                                           c.run.minCurrent, c.run.maxCurrent)
              c2 == updateCurrentValue([c1 EXCEPT !.run.I_k = I_k], I_k)
          IN IF I_k - UnitsPerMilliamp >= c.run.maxCurrent
             THEN StopThenReport(c2, c.run.currentPairIndex)
             ELSE [c2 EXCEPT !.run.pc = "loopSettle"]

Ctx1LoopHead(c, in) ==
  IF c.run.iteration < NumIterationsCtx1 /\ c.running
  THEN LET index == PerturbIndex(c.run.currentPairIndex, in.noise10)
           newPair == PairAt(index)
           c1 == SendStimulate([c EXCEPT !.run.currentPairIndex = index,
                                         !.run.pair = newPair,
                                         !.run.phase = 1],
                               c.run.I_k, newPair, "loopWrite", "loopWrite")
       IN IF rxCharacteristic THEN c1 ELSE Ctx1AfterWrite(c1, in)
  ELSE StopThenReport(c, c.run.currentPairIndex)

Ctx1AfterInit(c, in) ==
  Ctx1LoopHead([c EXCEPT !.run.I_k = c.run.minCurrent,
                         !.run.bestPairIndex = c.run.currentPairIndex], in)

Ctx1AfterSettle(c, in) == Ctx1LoopHead([c EXCEPT !.run.iteration = @ + 1], in)

(***************************************************************************)
(* ctx2                                                                    *)
(***************************************************************************)
\* Math.min(maxCurrent, Math.max(minCurrent, value)), not rounded
ClampCurrent(value, minCurrent, maxCurrent) ==
  Min(maxCurrent, Max(minCurrent, value))

Ctx2LoopHead(c, in) ==
  IF c.running
  THEN LET newPair == PairAt(in.index)
           newIntensity == ClampCurrent(c.run.bestIntensity + c.run.imu.level,
                                        c.run.minCurrent, c.run.maxCurrent)
       IN updateCurrentValue([c EXCEPT !.run.pair = newPair,
                                       !.run.currentPairIndex = in.index,
                                       !.run.I_k = newIntensity,
                                       !.run.phase = 1,
                                       !.run.pc = "preDelay"], newIntensity)
  ELSE [c EXCEPT !.run.pc = "done"]

Ctx2AfterPreDelay(c) ==
  SendStimulate(c, c.run.I_k, c.run.pair, "loopWrite", "loopSettle")

Ctx2AfterSettle(c, in) ==
  LET isBest == c.run.imu.level > Ctx2VariationThreshold * UnitsPerMilliamp
      c1 == IF isBest
            THEN updateBestCurrent(
                   updateBestPair([c EXCEPT !.run.bestPairFound = TRUE,
                                            !.run.bestPair = c.run.pair,
                                            !.run.bestIntensity = c.run.I_k],
                                  c.run.pair), c.run.I_k)
            ELSE c
  IN IF ~c1.running THEN [c1 EXCEPT !.run.pc = "done"]
     ELSE IF c1.run.bestPairFound /\ c1.run.bestIntensity >= c1.run.maxCurrent
          THEN Ctx2LoopHead([c1 EXCEPT !.running = FALSE], in)
          ELSE Ctx2LoopHead(c1, in)

(***************************************************************************)
(* Dispatch: what an invocation does when the await it is suspended at     *)
(* settles.                                                                *)
(***************************************************************************)
NoInput ==
  [noise10 |-> 0, noise10b |-> 0, eta10 |-> 0, delta |-> 0, score |-> 0,
   etaRound |-> 0, index |-> 0]

DeltaAllowed(run, d) ==
  1000 * Abs(d) <= 418 * Abs(run.maxCurrent - run.minCurrent)

\* the values the environment can supply to the resumption of `run`
Inputs(run) ==
  CASE ver = "part2" /\ run.pc \in {"initDelay", "p1Settle"} ->
         {[NoInput EXCEPT !.noise10 = n, !.eta10 = e] :
             n \in Phase1Noise, e \in EtaLevels}
    [] ver = "ctx3" /\ run.pc \in {"initDelay", "p1Settle"} ->
         {[NoInput EXCEPT !.noise10 = n, !.eta10 = e, !.delta = d] :
             n \in Phase1Noise, e \in EtaLevels,
             d \in {x \in CurrentDeltas : DeltaAllowed(run, x)}}
    [] ver = "ctx1" /\ run.pc \in {"initDelay", "loopSettle"} /\ rxCharacteristic ->
         {[NoInput EXCEPT !.noise10 = n] : n \in Phase1Noise}
    [] ver = "ctx1" /\ run.pc \in {"initDelay", "loopSettle"} /\ ~rxCharacteristic ->
         {[NoInput EXCEPT !.noise10 = n, !.score = x, !.delta = d] :
             n \in Phase1Noise, x \in ScoreLevels, d \in CurrentDeltas}
    [] ver = "ctx1" /\ run.pc = "loopWrite" ->
         {[NoInput EXCEPT !.score = x, !.delta = d] :
             x \in ScoreLevels, d \in CurrentDeltas}
    [] ver = "part1" /\ run.pc = "preDelay" ->
         {[NoInput EXCEPT !.etaRound = e] : e \in EtaRounds}
    [] ver = "ctx2" /\ run.pc \in {"initDelay", "loopSettle"} ->
         {[NoInput EXCEPT !.index = i] : i \in StartIndices}
    [] OTHER -> {NoInput}

AfterTimer(c, in) ==
  CASE ver = "part2" /\ c.run.pc = "initDelay" -> Part2AfterInit(c, in)
    [] ver = "part2" /\ c.run.pc = "p1Settle" -> Part2Phase1Eval(c, in)
    [] ver = "ctx3" /\ c.run.pc = "initDelay" -> Ctx3AfterInit(c, in)
    [] ver = "ctx3" /\ c.run.pc = "p1Settle" -> Ctx3Phase1Eval(c, in)
    [] ver \in {"part2", "ctx3"} /\ c.run.pc = "p2Settle" -> Phase2Eval(c)
    [] ver = "ctx1" /\ c.run.pc = "initDelay" -> Ctx1AfterInit(c, in)
    [] ver = "ctx1" /\ c.run.pc = "loopSettle" -> Ctx1AfterSettle(c, in)
    [] ver = "part1" /\ c.run.pc = "initDelay" -> Part1LoopHead(c)
    [] ver = "part1" /\ c.run.pc = "preDelay" -> Part1AfterPreDelay(c, in)
    [] ver = "part1" /\ c.run.pc = "loopSettle" -> Part1AfterSettle(c)
    [] ver = "ctx2" /\ c.run.pc = "initDelay" -> Ctx2LoopHead(c, in)
    [] ver = "ctx2" /\ c.run.pc = "preDelay" -> Ctx2AfterPreDelay(c)
    [] ver = "ctx2" /\ c.run.pc = "loopSettle" -> Ctx2AfterSettle(c, in)
    [] OTHER -> c

AfterWrite(c, in) ==
  CASE c.run.pc = "startIMU" -> [c EXCEPT !.run.pc = "initDelay"]
    [] c.run.pc = "p1Write" -> [c EXCEPT !.run.pc = "p1Settle"]
    [] c.run.pc = "p2Write" -> [c EXCEPT !.run.pc = "p2Settle"]
    [] c.run.pc = "finalStop" -> [c EXCEPT !.run.pc = "done"]
    [] c.run.pc = "loopWrite" /\ ver = "ctx1" -> Ctx1AfterWrite(c, in)
    [] c.run.pc = "loopWrite" /\ ver # "ctx1" -> [c EXCEPT !.run.pc = "loopSettle"]
    [] c.run.pc = "stopWrite" -> ReportBest(c)
    [] OTHER -> c

\* a rejected write: startIMU catches it, everywhere else the exception leaves
\* runOptimizationLoop
AfterWriteRejected(c) ==
  CASE c.run.pc = "startIMU" -> [c EXCEPT !.run.pc = "initDelay"]
    [] OTHER -> [c EXCEPT !.run.pc = "crashed"]

Commit(c) ==
  /\ runs' = [runs EXCEPT ![c.id] = c.run]
  /\ isOptimizationRunningRef' = c.running
  /\ lastCmd' = c.cmd

(***************************************************************************)
(* Actions                                                                 *)
(***************************************************************************)
Budget(run) == run.pc = "p2Settle" => run.surveyed < env.cap

TimerFired(r) ==
  /\ runs[r].pc \in TimerPcs
  /\ Budget(runs[r])
  /\ \E in \in Inputs(runs[r]) : Commit(AfterTimer(Ctx(r), in))
  /\ UNCHANGED << ver, env, rxCharacteristic, txCharacteristic, stops, starts, link, scoring, imuData, provider >>

WriteResolved(r) ==
  /\ runs[r].pc \in WritePcs
  /\ link.up
  /\ \E in \in Inputs(runs[r]) : Commit(AfterWrite(Ctx(r), in))
  /\ UNCHANGED << ver, env, rxCharacteristic, txCharacteristic, stops, starts, link, scoring, imuData, provider >>

WriteRejected(r) ==
  /\ runs[r].pc \in WritePcs
  /\ Commit(AfterWriteRejected(Ctx(r)))
  /\ UNCHANGED << ver, env, rxCharacteristic, txCharacteristic, stops, starts, link, scoring, imuData, provider >>

\* How the export ends: the response is read, the POST fails, or
\* response.json() fails.
ExportOutcomes == {"saved", "postFailed", "unreadable"}

\* variant: no catch, a failed export leaves runOptimizationLoop
AfterExportUncaught(c, outcome) ==
  IF outcome = "saved"
  THEN FinalStop([c EXCEPT !.run.exported = outcome])
  ELSE [c EXCEPT !.run.exported = outcome, !.run.pc = "crashed"]

\* try { fetch; response.json() } catch { log }; await stopOptimizationLoop()
AfterExport(c, outcome) == FinalStop([c EXCEPT !.run.exported = outcome])

ExportSettled(r) ==
  /\ runs[r].pc = "export"
  /\ \E outcome \in ExportOutcomes : Commit(AfterExport(Ctx(r), outcome))
  /\ UNCHANGED << ver, env, rxCharacteristic, txCharacteristic, stops, starts, link, scoring, imuData, provider >>

\* startIMU as runOptimizationLoop awaits it in ctx1, ctx3 and part2
AwaitStartIMU(c) ==
  IF ~txCharacteristic THEN [c EXCEPT !.run.pc = "initDelay"]
  ELSE [sendCommand(c, "imu", StartIMUArgs) EXCEPT !.run.pc = "startIMU"]

\* ctx2 and part1: startIMU() is called without await, and only when the
\* closure's imuData is empty; the delay that follows is under the same test
StartIMUIfEmpty(c, in) ==
  IF c.run.imu.empty
  THEN [(IF txCharacteristic THEN sendCommand(c, "imu", StartIMUArgs) ELSE c)
          EXCEPT !.run.pc = "initDelay"]
  ELSE IF ver = "part1" THEN Part1LoopHead(c) ELSE Ctx2LoopHead(c, in)

Begin(c, range, index, imu) ==
  [c EXCEPT !.running = TRUE,
            !.run = [IdleRun EXCEPT !.minCurrent = range[1],
                                    !.maxCurrent = range[2],
                                    !.I_k = range[1],
                                    !.bestIntensity = range[1],
                                    !.currentPairIndex = index,
                                    !.pair = PairAt(index),
                                    !.imu = imu]]

\* a new invocation takes the first slot that holds no suspended invocation
FreeSlot ==
  IF \E q \in Slots : ~Active(runs[q])
  THEN CHOOSE q \in Slots : ~Active(runs[q]) /\ \A p \in Slots : p < q => Active(runs[p])
  ELSE 0

RunOptimizationLoop(r) ==
  /\ starts < env.starts
  /\ r = FreeSlot
  /\ starts' = starts + 1
  /\ \E range \in CurrentRanges(ver, env.starts), index \in StartIndices, imu \in IMUSnapshots(ver) :
        LET c == Begin(Ctx(r), range, index, imu)
        IN IF ver \in {"ctx2", "part1"}
           THEN Commit(StartIMUIfEmpty(c, [NoInput EXCEPT !.index = index]))
           ELSE Commit(AwaitStartIMU(c))
  /\ UNCHANGED << ver, env, rxCharacteristic, txCharacteristic, stops, link, scoring, imuData, provider >>

\* stopOptimizationLoop called from the UI
StopOptimizationLoop ==
  /\ stops < MaxStops
  /\ stops' = stops + 1
  /\ LET c == stopOptimizationLoop(
                [id |-> 0, run |-> IdleRun, running |-> isOptimizationRunningRef,
                 cmd |-> lastCmd])
     IN /\ isOptimizationRunningRef' = c.running
        /\ lastCmd' = c.cmd
  /\ runs' = [r \in Slots |->
                IF Active(runs[r]) THEN [runs[r] EXCEPT !.cancelled = TRUE]
                ELSE runs[r]]
  /\ UNCHANGED << ver, env, rxCharacteristic, txCharacteristic, starts, link, scoring, imuData, provider >>

\* handleDisconnection, the gattserverdisconnected listener: it sets
\* isConnected and device only, so rxCharacteristic, the run flag and the
\* runs are as they were; from then on writeValue rejects.
HandleDisconnection ==
  /\ rxCharacteristic
  /\ link.up
  /\ link' = [up |-> FALSE,
              runs |-> {r \in Slots : Active(runs[r]) /\ ~runs[r].best.set},
              isConnected |-> FALSE, manual |-> FALSE]
  /\ UNCHANGED << ver, env, rxCharacteristic, txCharacteristic,
                  isOptimizationRunningRef, runs, lastCmd, stops, starts,
                  scoring, imuData, provider >>

\* disconnect(): gatt.disconnect(), setIsConnected(false), setDevice(null);
\* rxCharacteristic and txCharacteristic are left as they are
Disconnect ==
  /\ rxCharacteristic
  /\ link.up
  /\ link' = [up |-> FALSE,
              runs |-> {r \in Slots : Active(runs[r]) /\ ~runs[r].best.set},
              isConnected |-> FALSE, manual |-> TRUE]
  /\ UNCHANGED << ver, env, rxCharacteristic, txCharacteristic,
                  isOptimizationRunningRef, runs, lastCmd, stops, starts,
                  scoring, imuData, provider >>

Survey(prof, scr) ==
  [profile |-> prof, script |-> scr, cap |-> MaxSurvey, starts |-> 1]

\* the revisions without a Phase 2 read neither the profile nor the script
Deployments ==
  { <<v, e>> : v \in {"part2", "ctx3"},
               e \in {Survey("hot35", "cycle"), Survey("zero", "cycle"),
                      Survey("hot35", "stay"), Survey("hot35", "pairs35"),
                      Survey("hot5", "cycle")} }
  \cup { <<v, Survey("zero", "stay")>> : v \in {"ctx1", "ctx2", "part1"} }

\* useState({ imu1_changes: [], imu2_changes: [] }); arrived counts the samples
\* of each channel received so far, received the notifications, rejected those
\* that were dropped, and length is the payload length of the last one
NoSamples ==
  [imu1_changes |-> << >>, imu2_changes |-> << >>, arrived |-> 0,
   received |-> 0, rejected |-> 0, length |-> 0]

\* the provider after connect(): connect registered the handleIncomingData of
\* the render it was called in (render 0) when the TX characteristic was
\* found, and its setState calls caused render 1.  pending is the render of a
\* startIMU or stopIMU call that awaits its write; init is the await that
\* initializeDevice is suspended at and sent the commands it has written.
Connected(tx) ==
  [render |-> 1, listeners |-> IF tx THEN {0} ELSE {},
   starting |-> -1, stopping |-> -1,
   isInitializingRef |-> FALSE, init |-> "idle", sent |-> 0]

InitWith(deployments) ==
  /\ \E d \in deployments : ver = d[1] /\ env = d[2]
  /\ rxCharacteristic \in BOOLEAN
  /\ txCharacteristic = rxCharacteristic
  /\ isOptimizationRunningRef = FALSE
  /\ runs = [r \in Slots |-> IdleRun]
  /\ lastCmd = NoCmd
  /\ stops = 0
  /\ starts = 0
  /\ link = LinkUp
  /\ scoring = NoScoring
  /\ imuData = NoSamples
  /\ provider = Connected(txCharacteristic)

Init == InitWith(Deployments)

\* runOptimizationLoop invoked a second time, possibly while the first
\* invocation is still suspended
Reentry(prof, scr) ==
  [profile |-> prof, script |-> scr, cap |-> MaxSurveyReentry, starts |-> 2]

ReentryDeployments ==
  { <<v, Reentry("zero", "cycle")>> : v \in {"part2", "ctx2", "part1"} }

InitReentry == InitWith(ReentryDeployments)

Next ==
  \/ \E r \in Slots : RunOptimizationLoop(r)
  \/ \E r \in Slots : TimerFired(r)
  \/ \E r \in Slots : WriteResolved(r)
  \/ \E r \in Slots : WriteRejected(r)
  \/ \E r \in Slots : ExportSettled(r)
  \/ StopOptimizationLoop

Spec == Init /\ [][Next]_vars

SpecReentry == InitReentry /\ [][Next]_vars

\* The device may drop the link at any moment.
DisconnectDeployments ==
  { <<v, Survey("hot35", "pairs35")>> : v \in {"part2", "ctx3"} }
    \cup { <<v, Survey("zero", "stay")>> : v \in {"ctx1", "ctx2", "part1"} }

InitDisconnect == InitWith(DisconnectDeployments)

NextDisconnect ==
  \/ Next
  \/ HandleDisconnection

SpecDisconnect == InitDisconnect /\ [][NextDisconnect]_vars

NextManualDisconnect == NextDisconnect \/ Disconnect

SpecManualDisconnect == InitDisconnect /\ [][NextManualDisconnect]_vars

\* Every delay elapses and every write is acknowledged: the runs of the two
\* revisions with a Phase 1, followed to the end of a short survey.
Short(prof, scr) ==
  [profile |-> prof, script |-> scr, cap |-> MaxSurveyReentry, starts |-> 1]

Phase1Deployments ==
  { <<v, Short(prof, "cycle")>> : v \in {"part2", "ctx3"}, prof \in {"zero", "hot35"} }

InitPhase1 == InitWith(Phase1Deployments)

NextPhase1 ==
  \/ \E r \in Slots : RunOptimizationLoop(r)
  \/ \E r \in Slots : TimerFired(r)
  \/ \E r \in Slots : WriteResolved(r)
  \/ \E r \in Slots : ExportSettled(r)
  \/ StopOptimizationLoop

\* Run r is suspended at a delay that will elapse or a write that will be
\* acknowledged: the enabling condition of TimerFired(r) \/ WriteResolved(r).
Waiting(r) ==
  \/ runs[r].pc \in TimerPcs /\ Budget(runs[r])
  \/ runs[r].pc \in WritePcs /\ link.up

\* Run r was resumed: every step of TimerFired(r) and WriteResolved(r) moves
\* the invocation to another await, or counts an iteration.
Progressed(r) ==
  \/ runs'[r].pc # runs[r].pc
  \/ runs'[r].iteration # runs[r].iteration
  \/ runs'[r].surveyed # runs[r].surveyed
  \/ runs'[r].phase # runs[r].phase

\* Weak fairness of the resumption of each run, written with its enabling
\* condition as a state predicate: the event loop fires an elapsed timer and
\* delivers a settled promise.
Resumption(r) == []<>(~Waiting(r)) \/ []<><<Progressed(r)>>_vars

SpecPhase1 ==
  /\ InitPhase1
  /\ [][NextPhase1]_vars
  /\ \A r \in Slots : Resumption(r)

(***************************************************************************)
(* The pair-index perturbation on its own: any start index that            *)
(* Math.floor(Math.random() * numPairs) can give, any noise.               *)
(***************************************************************************)
\* 10 * eta_noise * numPairs, and 10 * eta for part1
NoiseValues == -MaxNoise10 .. MaxNoise10

\* electrodePairs[index]; undefined outside the array
PairOrUndefined(index) ==
  IF index \in 0 .. numPairs - 1 THEN PairAt(index) ELSE <<0, 0>>

\* part1: Math.max(0, Math.min(numPairs - 1, Math.round(currentPairIndex + eta)))
RoundedPerturbIndex(currentPairIndex, eta10) ==
  Max(0, Min(numPairs - 1, currentPairIndex + FloorDiv(eta10 + 5, 10)))

RandomStart(r) ==
  /\ starts < env.starts
  /\ r = FreeSlot
  /\ starts' = starts + 1
  /\ \E index \in 0 .. numPairs - 1 :
       runs' = [runs EXCEPT ![r] = [IdleRun EXCEPT !.pc = "perturb",
                                                   !.currentPairIndex = index,
                                                   !.perturbedIndex = index,
                                                   !.pair = PairAt(index)]]
  /\ UNCHANGED << ver, env, rxCharacteristic, txCharacteristic,
                  isOptimizationRunningRef, lastCmd, stops, link, scoring, imuData, provider >>

\* the perturbation statement of one iteration; part1 keeps currentPairIndex
\* and stimulates electrodePairs[perturbedIndex]
Perturbation(r) ==
  /\ runs[r].pc = "perturb"
  /\ runs[r].draws < MaxPerturbations
  /\ \E noise10 \in NoiseValues :
       LET index == IF ver = "part1"
                    THEN RoundedPerturbIndex(runs[r].currentPairIndex, noise10)
                    ELSE PerturbIndex(runs[r].currentPairIndex, noise10)
       IN runs' = [runs EXCEPT ![r].currentPairIndex = IF ver = "part1" THEN @ ELSE index,
                               ![r].perturbedIndex = index,
                               ![r].pair = PairOrUndefined(index),
                               ![r].draws = @ + 1]
  /\ UNCHANGED << ver, env, rxCharacteristic, txCharacteristic,
                  isOptimizationRunningRef, lastCmd, stops, starts, link, scoring, imuData, provider >>

InitPerturb ==
  InitWith({ <<v, Short("zero", "stay")>> : v \in {"part2", "ctx3", "ctx1", "part1"} })

NextPerturb ==
  \/ \E r \in Slots : RandomStart(r)
  \/ \E r \in Slots : Perturbation(r)

SpecPerturb == InitPerturb /\ [][NextPerturb]_vars

(***************************************************************************)
(* The sensor history kept by the notification handler.                    *)
(***************************************************************************)
\* records of one notification: 1, a few, or more than the history holds
BatchSizes == {1, 3, 200, 600}

\* the k-th record received gives the deltas k (sensor 1) and 2 * k (sensor 2)
Sensor1Changes(first, count) == [i \in 1 .. count |-> first + i]
Sensor2Changes(first, count) == [i \in 1 .. count |-> 2 * (first + i)]

\* array.slice(-n)
LastN(s, n) == IF Len(s) <= n THEN s ELSE SubSeq(s, Len(s) - n + 1, Len(s))

\* part2, ctx3: [...prev, ...changes].slice(-maxHistory); the other revisions
\* call setImuData with the changes of the notification alone
NextHistory(prev, changes) ==
  IF ver \in {"part2", "ctx3"} THEN LastN(prev \o changes, maxHistory) ELSE changes

\* handleIMUData / handleIncomingData on a notification of count records
IMUNotification(count) ==
  /\ imuData.arrived + count <= MaxArrived
  /\ imuData' = [imuData EXCEPT
                   !.imu1_changes = NextHistory(@, Sensor1Changes(imuData.arrived, count)),
                   !.imu2_changes = NextHistory(@, Sensor2Changes(imuData.arrived, count)),
                   !.arrived = @ + count]
  /\ UNCHANGED << ver, env, rxCharacteristic, txCharacteristic,
                  isOptimizationRunningRef, runs, lastCmd, stops, starts, link, scoring, provider >>

InitIMU == InitWith({ <<v, Short("zero", "stay")>> : v \in Versions })

NextIMU == \E count \in BatchSizes : IMUNotification(count)

SpecIMU == InitIMU /\ [][NextIMU]_vars

(***************************************************************************)
(* Notifications by payload length, well formed or not.                    *)
(***************************************************************************)
PayloadLengths == {2, 3, 4, 5, 8, 12}

Rejected == -1

\* DataView.getUint16(offset) raises a RangeError past the end of the buffer
ReadInBounds(offset, length) == offset + 2 <= length

\* for (let i = 0; i < rawBytes.length; i += 4)
RecordOffsets(length) == { i \in 0 .. length - 1 : i % 4 = 0 }

\* variant: the loop stops before a record that is not whole
RecordsOfWholeOnly(length) == length \div 4

\* the number of records the handler makes of a payload, or Rejected.
\* ctx2, part1: `if (rawBytes.length % 4 !== 0) return`; the other revisions
\* read inside try/catch, and a read past the end skips setImuData
RecordsOf(length) ==
  IF ver \in {"ctx2", "part1"}
  THEN (IF length % 4 # 0 THEN Rejected ELSE length \div 4)
  ELSE (IF \A i \in RecordOffsets(length) :
              ReadInBounds(i, length) /\ ReadInBounds(i + 2, length)
        THEN Cardinality(RecordOffsets(length))
        ELSE Rejected)

\* handleIncomingData on a notification with a payload of length bytes
IMUPayload(length) ==
  /\ imuData.received < MaxNotifications
  /\ LET count == RecordsOf(length)
         seen == [imuData EXCEPT !.received = @ + 1, !.length = length]
     IN imuData' =
          IF count = Rejected
          THEN [seen EXCEPT !.rejected = @ + 1]
          ELSE [seen EXCEPT
                  !.imu1_changes = NextHistory(@, Sensor1Changes(imuData.arrived, count)),
                  !.imu2_changes = NextHistory(@, Sensor2Changes(imuData.arrived, count)),
                  !.arrived = @ + count]
  /\ UNCHANGED << ver, env, rxCharacteristic, txCharacteristic,
                  isOptimizationRunningRef, runs, lastCmd, stops, starts, link, scoring, provider >>

NextPayload == \E length \in PayloadLengths : IMUPayload(length)

SpecPayload == InitIMU /\ [][NextPayload]_vars

(***************************************************************************)
(* The notification listeners of the TX characteristic and                 *)
(* initializeDevice.  handleIncomingData is a new function in every render *)
(* of the provider, and addEventListener / removeEventListener tell        *)
(* listeners apart by function: a listener is named by its render.         *)
(***************************************************************************)
StopIMUArgs == << S(<<"B">>) >>

DigitChars == << "0", "1", "2", "3", "4", "5", "6", "7", "8", "9" >>

\* num < 10 ? "0" + num : num.toString()
padValue(num) ==
  IF num < 10 THEN << "0", DigitChars[num + 1] >>
  ELSE << DigitChars[(num \div 10) + 1], DigitChars[(num % 10) + 1] >>

initializationConfig ==
  << [cmd |-> "f", value |-> 35], [cmd |-> "d", value |-> 7],
     [cmd |-> "o", value |-> 5], [cmd |-> "O", value |-> 10],
     [cmd |-> "r", value |-> 0], [cmd |-> "R", value |-> 0] >>

\* the k-th write of initializeDevice: the six parameters, then "s"
InitCommandArgs(k) ==
  IF k <= Len(initializationConfig)
  THEN << S(<< initializationConfig[k].cmd >>),
          S(padValue(initializationConfig[k].value)), S(<<"0">>) >>
  ELSE << S(<<"s">>) >>

\* sendCommand called outside a run
Written(kind, args) ==
  IF rxCharacteristic
  THEN [kind |-> kind, bytes |-> CommandBytes(ver, args), by |-> 0]
  ELSE lastCmd

\* startIMU up to `await sendCommand("b")`; runOptimizationLoop calls it too
StartIMU ==
  /\ txCharacteristic
  /\ provider.starting = -1
  /\ lastCmd' = Written("imu", StartIMUArgs)
  /\ provider' = [provider EXCEPT !.starting = provider.render]
  /\ UNCHANGED << ver, env, rxCharacteristic, txCharacteristic,
                  isOptimizationRunningRef, runs, stops, starts, link, scoring, imuData >>

\* the write settles: addEventListener(handleIncomingData), or the catch
StartIMUSettled(resolved) ==
  /\ provider.starting # -1
  /\ provider' = [provider EXCEPT
                    !.listeners = IF resolved THEN @ \cup {provider.starting} ELSE @,
                    !.starting = -1]
  /\ UNCHANGED << ver, env, rxCharacteristic, txCharacteristic,
                  isOptimizationRunningRef, runs, lastCmd, stops, starts, link,
                  scoring, imuData >>

\* stopIMU up to `await sendCommand("B")`
StopIMU ==
  /\ txCharacteristic
  /\ provider.stopping = -1
  /\ lastCmd' = Written("imuStop", StopIMUArgs)
  /\ provider' = [provider EXCEPT !.stopping = provider.render]
  /\ UNCHANGED << ver, env, rxCharacteristic, txCharacteristic,
                  isOptimizationRunningRef, runs, stops, starts, link, scoring, imuData >>

\* the write settles: removeEventListener(handleIncomingData), or the catch
StopIMUSettled(resolved) ==
  /\ provider.stopping # -1
  /\ provider' = [provider EXCEPT
                    !.listeners = IF resolved THEN @ \ {provider.stopping} ELSE @,
                    !.stopping = -1]
  /\ UNCHANGED << ver, env, rxCharacteristic, txCharacteristic,
                  isOptimizationRunningRef, runs, lastCmd, stops, starts, link,
                  scoring, imuData >>

\* setImuData of each of n listeners, on the same records
RECURSIVE Handled(_, _, _, _)
Handled(data, changes1, changes2, n) ==
  IF n = 0 THEN data
  ELSE Handled([data EXCEPT !.imu1_changes = NextHistory(@, changes1),
                            !.imu2_changes = NextHistory(@, changes2)],
               changes1, changes2, n - 1)

\* a characteristicvaluechanged event of count records: every listener runs
\* handleIncomingData, which takes the payload for a command response while
\* isInitializingRef is set; setImuData causes a new render
NotificationDelivered(count) ==
  /\ provider.listeners # {}
  /\ imuData.received < MaxDeliveries
  /\ LET seen == [imuData EXCEPT !.received = @ + 1, !.length = 4 * count]
     IN IF provider.isInitializingRef
        THEN imuData' = seen /\ provider' = provider
        ELSE /\ imuData' = [Handled(seen, Sensor1Changes(imuData.arrived, count),
                                    Sensor2Changes(imuData.arrived, count),
                                    Cardinality(provider.listeners))
                              EXCEPT !.arrived = @ + count]
             /\ provider' = [provider EXCEPT !.render = @ + 1]
  /\ UNCHANGED << ver, env, rxCharacteristic, txCharacteristic,
                  isOptimizationRunningRef, runs, lastCmd, stops, starts, link, scoring >>

\* initializeDevice up to its first `await sendCommand(cmd, padValue(value), "0")`
InitializeDevice ==
  /\ ver \in {"ctx1", "ctx3", "part2"}
  /\ txCharacteristic
  /\ provider.init = "idle"
  /\ lastCmd' = Written("init", InitCommandArgs(1))
  /\ provider' = [provider EXCEPT !.isInitializingRef = TRUE,
                                  !.init = "write", !.sent = 1]
  /\ UNCHANGED << ver, env, rxCharacteristic, txCharacteristic,
                  isOptimizationRunningRef, runs, stops, starts, link, scoring, imuData >>

\* a write of initializeDevice settles: `await responsePromise` follows a
\* parameter, `isInitializingRef.current = false` and the 500 ms delay follow
\* "s"; a rejection goes to the catch, which logs
InitWriteSettled(resolved) ==
  /\ provider.init = "write"
  /\ provider' =
       IF ~resolved THEN [provider EXCEPT !.init = "failed"]
       ELSE IF provider.sent <= Len(initializationConfig)
            THEN [provider EXCEPT !.init = "response"]
            ELSE [provider EXCEPT !.init = "delay", !.isInitializingRef = FALSE]
  /\ UNCHANGED << ver, env, rxCharacteristic, txCharacteristic,
                  isOptimizationRunningRef, runs, lastCmd, stops, starts, link,
                  scoring, imuData >>

\* the timer of waitForDeviceResponse, or the final delay, expires
InitTimerFired ==
  /\ provider.init \in {"response", "delay"}
  /\ IF provider.init = "response"
     THEN /\ lastCmd' = Written("init", InitCommandArgs(provider.sent + 1))
          /\ provider' = [provider EXCEPT !.init = "write", !.sent = @ + 1]
     ELSE /\ lastCmd' = lastCmd
          /\ provider' = [provider EXCEPT !.init = "done"]
  /\ UNCHANGED << ver, env, rxCharacteristic, txCharacteristic,
                  isOptimizationRunningRef, runs, stops, starts, link, scoring, imuData >>

InitProvider == InitWith({ <<v, Short("zero", "stay")>> : v \in Versions })

NextProvider ==
  \/ StartIMU
  \/ \E resolved \in BOOLEAN : StartIMUSettled(resolved)
  \/ StopIMU
  \/ \E resolved \in BOOLEAN : StopIMUSettled(resolved)
  \/ \E count \in {1, 2} : NotificationDelivered(count)
  \/ InitializeDevice
  \/ \E resolved \in BOOLEAN : InitWriteSettled(resolved)
  \/ InitTimerFired

SpecProvider == InitProvider /\ [][NextProvider]_vars

(***************************************************************************)
(* Scoring of a sensor window.  A score is kept as [nan, sign]: whether it *)
(* is NaN, and otherwise whether it is negative, zero or positive.         *)
(*                                                                         *)
(* part2: samples are taken from the perfect squares, for which            *)
(* Math.pow(v, 1.5) is a whole number, and contrastRMS is computed as the  *)
(* exact fraction (n * max - sum) / n.                                     *)
(* ctx3: the Haar coefficients are numbers (a + b * sqrt(2)) / 2^k, kept   *)
(* exactly as [a, b, k], or NaN; a term Math.pow(Math.abs(x), 2.5) is zero *)
(* when x is zero, positive when x is another number, NaN when x is NaN.   *)
(***************************************************************************)
Sgn(x) == IF x < 0 THEN -1 ELSE IF x = 0 THEN 0 ELSE 1

\* the samples Math.abs(value - IDLE_VALUE) that a notification may carry
SampleValues == {0, 1, 4}

WindowSize == IF ver = "ctx3" THEN WindowSizeCtx3 ELSE WindowSizePart2

ISqrt(x) == CHOOSE r \in 0 .. x : r * r = x

\* Math.pow(x, 1.5) of a perfect square
Pow15(x) == ISqrt(x) * ISqrt(x) * ISqrt(x)

nonlinearTransform(window) ==
  [i \in 1 .. Len(window) |-> Sgn(window[i]) * Pow15(Abs(window[i])) * TransformGain]

RECURSIVE MaxOf(_)
MaxOf(s) ==
  IF Len(s) = 1 THEN s[1] ELSE Max(s[1], MaxOf(Tail(s)))

RECURSIVE SumOf(_)
SumOf(s) ==
  IF s = << >> THEN 0 ELSE s[1] + SumOf(Tail(s))

\* max - mean of the absolute values; 0 for the empty window
contrastRMS(window) ==
  IF Len(window) = 0 THEN [nan |-> FALSE, sign |-> 0]
  ELSE LET absValues == [i \in 1 .. Len(window) |-> Abs(window[i])]
           max == MaxOf(absValues)
           sum == SumOf(absValues)
       IN [nan |-> FALSE, sign |-> Sgn(Len(window) * max - sum)]

NaN == [nan |-> TRUE, a |-> 0, b |-> 0, k |-> 0]

Num(x) == [nan |-> FALSE, a |-> x, b |-> 0, k |-> 0]

\* (x + y) / Math.sqrt(2) and (x - y) / Math.sqrt(2); x and y of one level
HaarAvg(x, y) ==
  IF x.nan \/ y.nan THEN NaN
  ELSE [nan |-> FALSE, a |-> 2 * (x.b + y.b), b |-> x.a + y.a, k |-> x.k + 1]

HaarDiff(x, y) ==
  IF x.nan \/ y.nan THEN NaN
  ELSE [nan |-> FALSE, a |-> 2 * (x.b - y.b), b |-> x.a - y.a, k |-> x.k + 1]

\* coeffs[j] read in arithmetic, j counted from 0: undefined gives NaN
CoeffAt(coeffs, j) == IF j < Len(coeffs) THEN coeffs[j + 1] ELSE NaN

\* One level of waveletTransform.  half is coeffs.length / 2; when the
\* length is odd temp[half + i] is not an array element, so temp has one
\* element per iteration of the loop.
HaarLevel(coeffs) ==
  LET n == Len(coeffs)
      steps == (n + 1) \div 2
      tempLength == IF n % 2 = 0 THEN n ELSE steps
      temp == [j \in 1 .. tempLength |->
                 IF j <= steps
                 THEN HaarAvg(CoeffAt(coeffs, 2 * (j - 1)),
                              CoeffAt(coeffs, 2 * (j - 1) + 1))
                 ELSE HaarDiff(CoeffAt(coeffs, 2 * (j - 1 - steps)),
                               CoeffAt(coeffs, 2 * (j - 1 - steps) + 1))]
  IN LastN(temp, tempLength)

RECURSIVE waveletLevels(_, _)
waveletLevels(coeffs, levels) ==
  IF levels = 0 THEN coeffs ELSE waveletLevels(HaarLevel(coeffs), levels - 1)

waveletTransform(window, levels) ==
  waveletLevels([i \in 1 .. Len(window) |-> Num(window[i])], levels)

\* array.slice(start, end) with start and end already truncated, from 0
Slice(s, start, end) == SubSeq(s, start + 1, Min(end, Len(s)))

\* sum of Math.pow(Math.abs(x), p) over the coefficients
Energy(coeffs) ==
  IF \E i \in 1 .. Len(coeffs) : coeffs[i].nan THEN [nan |-> TRUE, sign |-> 0]
  ELSE IF \E i \in 1 .. Len(coeffs) : coeffs[i].a # 0 \/ coeffs[i].b # 0
       THEN [nan |-> FALSE, sign |-> 1]
       ELSE [nan |-> FALSE, sign |-> 0]

\* sizeA3 = length / 2^levels; slice truncates the fractional bounds
extractD3D2Energy(window) ==
  LET waveletCoeffs == waveletTransform(window, WaveletLevels)
      coeffLength == Len(window)
      startD3 == coeffLength \div 8
      endD3 == (2 * coeffLength) \div 8
      endD2 == (4 * coeffLength) \div 8
      energyD3 == Energy(Slice(waveletCoeffs, startD3, endD3))
      energyD2 == Energy(Slice(waveletCoeffs, endD3, endD2))
  IN IF energyD3.nan \/ energyD2.nan THEN [nan |-> TRUE, sign |-> 0]
     ELSE [nan |-> FALSE, sign |-> Sgn(7 * energyD3.sign + 3 * energyD2.sign)]

\* the score of one window in Phase 2
WindowScore(window) ==
  IF ver = "ctx3" THEN extractD3D2Energy(window)
  ELSE contrastRMS(nonlinearTransform(window))

\* handleIMUData: a notification of one sample pair; the loops read the last
\* WindowSize samples
HandleIMUData ==
  /\ scoring.stage # "off"
  /\ \E v \in SampleValues :
       scoring' = [stage |-> "collect",
                   window |-> LastN(Append(scoring.window, v), WindowSize),
                   result |-> NoScoring.result]
  /\ UNCHANGED << ver, env, rxCharacteristic, txCharacteristic,
                  isOptimizationRunningRef, runs, lastCmd, stops, starts, link, imuData, provider >>

\* the loop scores the window it reads
ScoreWindow ==
  /\ scoring.stage = "collect"
  /\ scoring' = [scoring EXCEPT !.stage = "scored",
                                !.result = WindowScore(scoring.window)]
  /\ UNCHANGED << ver, env, rxCharacteristic, txCharacteristic,
                  isOptimizationRunningRef, runs, lastCmd, stops, starts, link, imuData, provider >>

InitScore ==
  /\ ver \in {"part2", "ctx3"}
  /\ env = Survey("zero", "stay")
  /\ rxCharacteristic = TRUE
  /\ txCharacteristic = TRUE
  /\ isOptimizationRunningRef = FALSE
  /\ runs = [r \in Slots |-> IdleRun]
  /\ lastCmd = NoCmd
  /\ stops = 0
  /\ starts = 0
  /\ link = LinkUp
  /\ scoring = [NoScoring EXCEPT !.stage = "collect"]
  /\ imuData = NoSamples
  /\ provider = Connected(txCharacteristic)

NextScore ==
  \/ HandleIMUData
  \/ ScoreWindow

SpecScore == InitScore /\ [][NextScore]_vars

(***************************************************************************)
(* Properties                                                              *)
(***************************************************************************)
HasPhases == ver \in {"part2", "ctx3"}

ConfiguredMinimum == IF ver = "ctx3" THEN 9 ELSE 7

InRange(run, halfUnits) ==
  run.minCurrent <= halfUnits /\ halfUnits <= run.maxCurrent

RECURSIVE SumUsage(_, _)
SumUsage(tracker, n) ==
  IF n = 0 THEN 0 ELSE tracker[n].usage + SumUsage(tracker, n - 1)

\* C1: when Phase 2 has declared a winner (updateBestPair / updateBestCurrent
\* were called), no electrode 1..9 has a usage below the configured minimum.
C1_NoWinnerBelowMinimumUsage ==
  \A r \in Slots :
    (HasPhases /\ (runs[r].best.set \/ runs[r].bestCurrentCalls > 0)) =>
       \A e \in Electrodes : runs[r].statsTracker[e].usage >= ConfiguredMinimum

\* a winner was declared, and some electrode sits exactly on the minimum
C1_Witness ==
  \E r \in Slots :
    /\ HasPhases /\ runs[r].best.set /\ runs[r].phase = 2
    /\ \E e \in Electrodes : runs[r].statsTracker[e].usage = ConfiguredMinimum

\* C2: a run that stop() was called on sends no stimulate command afterwards.
C2_NoStimulateAfterStop ==
  \A r \in Slots : ~runs[r].stimAfterCancel

\* C3: a run that stop() was called on never reports a winning pair or current.
C3_NoWinnerAfterStop ==
  \A r \in Slots : ~runs[r].bestAfterCancel

C5_NewRunWaitsForPreviousRun ==
  ~ ( /\ Active(runs[1]) /\ Active(runs[2])
      /\ lastCmd.kind = "stim" /\ lastCmd.by = 2 )

\* C6: with minCurrent <= maxCurrent, the current passed to updateCurrentValue
\* and updateBestCurrent, the current of every stimulate command and the
\* current level of the run lie in [minCurrent, maxCurrent].
C6_CurrentWithinBounds ==
  \A r \in Slots :
    (runs[r].pc # "idle" /\ runs[r].minCurrent <= runs[r].maxCurrent) =>
       /\ InRange(runs[r], runs[r].I_k)
       /\ runs[r].shownCurrent # -1 => InRange(runs[r], runs[r].shownCurrent)
       /\ runs[r].sentCurrent # -1 =>
            InRange(runs[r], runs[r].sentCurrent * UnitsPerMilliamp)
       /\ runs[r].bestCurrentCalls > 0 => InRange(runs[r], runs[r].best.current)

\* C7: with minCurrent = maxCurrent no Phase 1 stimulate command is sent, the
\* current stays minCurrent, and every stimulate command sent is a Phase 2
\* command that carries minCurrent.
C7_EqualBoundsSkipPhase1 ==
  \A r \in Slots :
    (HasPhases /\ runs[r].pc # "idle" /\ runs[r].minCurrent = runs[r].maxCurrent) =>
       /\ ~runs[r].stimulatedPhase1
       /\ runs[r].phase # 1
       /\ runs[r].I_k = runs[r].minCurrent
       /\ runs[r].shownCurrent = -1
       /\ runs[r].sentCurrent # -1 =>
            /\ runs[r].phase = 2
            /\ runs[r].sentCurrent * UnitsPerMilliamp = runs[r].minCurrent

\* Scenario A: bounds 8 and 8, the first stimulate command is in flight, it
\* is a Phase 2 command with current 8
C7_Witness ==
  \E r \in Slots :
    /\ HasPhases /\ runs[r].minCurrent = 8 * UnitsPerMilliamp
    /\ runs[r].maxCurrent = runs[r].minCurrent
    /\ runs[r].pc = "p2Write" /\ runs[r].surveyed = 0
    /\ lastCmd.kind = "stim" /\ lastCmd.bytes[2] = 8

\* C8: the usages of the nine electrodes add up to twice the number of
\* completed Phase 2 iterations; before Phase 2 the table holds nothing.
C8_UsageSumIsTwiceIterations ==
  \A r \in Slots :
    HasPhases =>
      /\ runs[r].phase # 2 => (DOMAIN runs[r].statsTracker = {} /\ runs[r].surveyed = 0)
      /\ runs[r].phase = 2 =>
           /\ DOMAIN runs[r].statsTracker = Electrodes
           /\ SumUsage(runs[r].statsTracker, numElectrodes) = 2 * runs[r].surveyed

\* Phase 2 follows a Phase 1 that did stimulate, and has completed iterations
C8_Witness ==
  \E r \in Slots :
    /\ HasPhases /\ runs[r].phase = 2 /\ runs[r].stimulatedPhase1
    /\ runs[r].surveyed >= 3
    /\ SumUsage(runs[r].statsTracker, numElectrodes) = 2 * runs[r].surveyed

\* C9: for every electrode of the table, averageScore is aggregatedScore /
\* usage when usage > 0 and 0 when usage = 0.
C9_AverageIsAggregateOverUsage ==
  \A r \in Slots : \A e \in DOMAIN runs[r].statsTracker :
    LET s == runs[r].statsTracker[e]
    IN /\ s.averageScore.d > 0
       /\ s.usage > 0 => s.averageScore.n * s.usage = s.aggregatedScore * s.averageScore.d
       /\ s.usage = 0 => s.averageScore.n = 0

\* an electrode with several records whose average is no whole number, next to
\* an electrode that was never used
C9_Witness ==
  \E r \in Slots : \E e, f \in DOMAIN runs[r].statsTracker :
    /\ runs[r].statsTracker[e].usage >= 2
    /\ runs[r].statsTracker[e].averageScore.d > 1
    /\ runs[r].statsTracker[f].usage = 0

\* C10: with an activation score of 0 for every pair no winner is declared.
C10_ZeroScoresDeclareNoWinner ==
  \A r \in Slots :
    (HasPhases /\ env.profile = "zero") => ~runs[r].best.set

AverageOf(run, e) == run.statsTracker[e].averageScore

\* x < y for two exact quotients with positive denominators
Below(x, y) == x.n * y.d < y.n * x.d

AllScores(run, e, value) ==
  \A i \in 1 .. Len(run.statsTracker[e].scores) : run.statsTracker[e].scores[i] = value

\* C11: a declared Phase 2 winner is made of two distinct electrodes, no
\* third electrode has a strictly higher averageScore than either of them;
\* when electrodes 3 and 5 only ever scored 50 and all others only ever
\* scored 5, the winner is made of electrodes 3 and 5.
C11_WinnerIsTopTwoRanked ==
  \A r \in Slots :
    (HasPhases /\ runs[r].best.set) =>
       LET a == runs[r].best.pair[1]
           b == runs[r].best.pair[2]
       IN /\ a \in Electrodes /\ b \in Electrodes /\ a # b
          /\ \A e \in Electrodes \ {a, b} :
                /\ ~Below(AverageOf(runs[r], a), AverageOf(runs[r], e))
                /\ ~Below(AverageOf(runs[r], b), AverageOf(runs[r], e))
          /\ ( /\ \A e \in {3, 5} : AllScores(runs[r], e, 50)
               /\ \A e \in Electrodes \ {3, 5} : AllScores(runs[r], e, 5) )
             => {a, b} = {3, 5}

\* Scenario C: 3 and 5 only ever scored 50, the others 5, and the winner
\* (3, 5) was declared
C11_Witness ==
  \E r \in Slots :
    /\ ver = "part2" /\ runs[r].best.set /\ runs[r].best.pair = <<3, 5>>
    /\ \A e \in {3, 5} : AllScores(runs[r], e, 50)
    /\ \A e \in Electrodes \ {3, 5} :
          AllScores(runs[r], e, 5) /\ runs[r].statsTracker[e].usage >= 5

\* C12: the pair a run stimulates and the winning pair it reports have the
\* smaller electrode id first.
C12_SmallerIdFirst ==
  \A r \in Slots :
    /\ runs[r].pair[1] < runs[r].pair[2]
    /\ runs[r].best.set => runs[r].best.pair[1] < runs[r].best.pair[2]

\* C13: the enumeration for 9 electrodes holds exactly 36 pairs, each with
\* its first component strictly below the second and both in 1..9, no two of
\* them the same unordered pair; every pair a run stimulates is one of them.
C13_ThirtySixDistinctPairs ==
  LET pairs == electrodePairs
  IN /\ Len(pairs) = 36
     /\ \A i \in 1 .. Len(pairs) :
           /\ pairs[i][1] \in 1 .. 9
           /\ pairs[i][2] \in 1 .. 9
           /\ pairs[i][1] < pairs[i][2]
     /\ Cardinality({ {pairs[i][1], pairs[i][2]} : i \in 1 .. Len(pairs) }) = Len(pairs)
     /\ \A r \in Slots :
           runs[r].pc # "idle" => \E i \in 1 .. Len(pairs) : runs[r].pair = pairs[i]

\* a run stimulates the last pair of the enumeration
C13_Witness ==
  \E r \in Slots :
    /\ runs[r].pc = "p2Write" /\ runs[r].currentPairIndex = 35
    /\ runs[r].pair = <<8, 9>> /\ lastCmd.kind = "stim"

\* C14: a run started with minCurrent > maxCurrent is rejected: it is never
\* suspended inside runOptimizationLoop, sends no command, sets no flag and
\* executes no Phase 1 or Phase 2 iteration.
C14_InvertedBoundsRejected ==
  \A r \in Slots :
    runs[r].minCurrent > runs[r].maxCurrent =>
       /\ ~Active(runs[r])
       /\ runs[r].phase = 0
       /\ runs[r].sentCurrent = -1
       /\ lastCmd.by # r
       /\ ~isOptimizationRunningRef

StimulateWritePcs == {"p1Write", "p2Write", "loopWrite"}

\* C15: an iteration whose stimulate command failed is a no-op and the run
\* goes on: a rejected stimulate write does not end the run, and an
\* iteration whose command was not written (RX characteristic missing)
\* records nothing in the statistics table.
C15_FailedStimulateIsNoOp ==
  [][ \A r \in Slots :
        /\ runs[r].pc \in StimulateWritePcs => runs'[r].pc # "crashed"
        /\ (~rxCharacteristic /\ runs[r].pc = "p2Settle") =>
              runs'[r].statsTracker = runs[r].statsTracker ]_vars

\* C16: when the link is lost for good under an active run, the run ends
\* aborted: it reports no winner, and once it has ended the run flag is false.
C16_DisconnectAbortsRun ==
  \A r \in link.runs :
    /\ ~runs[r].best.set
    /\ ~Active(runs[r]) => ~isOptimizationRunningRef

ExportFailed(run) == run.exported \in ExportOutcomes \ {"saved"}

DisableBy(r) ==
  [kind |-> "disable", bytes |-> CommandBytes(ver, StopStimulationArgs), by |-> r]

C18_ScoreDefinedNonNegative ==
  scoring.stage = "scored" =>
    /\ ~scoring.result.nan
    /\ scoring.result.sign >= 0
    /\ scoring.window = << >> => scoring.result.sign = 0

NumIterations == IF ver = "ctx3" THEN NumIterationsCtx3 ELSE NumIterationsPart2

InPhase1(run) == run.phase = 1 /\ run.pc \in {"p1Write", "p1Settle"}

\* the resumption of an iteration of Phase 1 after its settling delay
Phase1Resumed(r) ==
  /\ runs[r].phase = 1 /\ runs[r].pc = "p1Settle"
  /\ \/ runs'[r].pc # "p1Settle"
     \/ runs'[r].iteration # runs[r].iteration
     \/ runs'[r].phase # 1

\* C19: Phase 1 runs fewer than NumIterations iterations; an iteration that
\* resumes either starts the next iteration, counted, or ends Phase 1; when
\* Phase 1 ends with the run flag set the first Phase 2 iteration starts, and
\* with the flag cleared the run goes to its exit; and when every delay
\* elapses and every write is acknowledged, a run in Phase 1 leaves Phase 1.
C19_Phase1Terminates ==
  /\ [](\A r \in Slots : InPhase1(runs[r]) => runs[r].iteration < NumIterations)
  /\ [][ \A r \in Slots :
           Phase1Resumed(r) =>
             \/ /\ InPhase1(runs'[r])
                /\ runs'[r].iteration = runs[r].iteration + 1
             \/ /\ runs'[r].phase = 2
                /\ runs'[r].surveyed = 0
                /\ isOptimizationRunningRef' =>
                     runs'[r].pc \in {"p2Write", "p2Settle"}
                /\ ~isOptimizationRunningRef' => runs'[r].pc = "export" ]_vars
  /\ \A r \in Slots : InPhase1(runs[r]) ~> (runs[r].phase = 2)

\* the last iteration that the budget of ctx3 allows is in progress
C19_Witness ==
  \E r \in Slots :
    /\ InPhase1(runs[r]) /\ runs[r].iteration = NumIterations - 1
    /\ ~runs[r].cancelled

\* C20: when a run has returned, the run flag is false and, if the run sent a
\* stimulate command, the last command handed to the actuator is the disable
\* command.
C20_ReturnedRunLeftActuatorDisabled ==
  \A r \in Slots :
    runs[r].pc = "done" =>
      /\ ~isOptimizationRunningRef
      /\ runs[r].sentCurrent # -1 => lastCmd.kind = "disable"

\* C21: Phase 1 of part2 locks the current by stability only after
\* ConsecutiveStableCount consecutive iterations at or above the threshold:
\* while the run is not cancelled, neither the first nor the second iteration
\* ends Phase 1.
C21_StabilityLockNeedsConsecutiveIterations ==
  [][ \A r \in Slots :
        ( /\ ver = "part2" /\ runs[r].phase = 1 /\ runs[r].pc = "p1Settle"
          /\ runs[r].iteration < ConsecutiveStableCount - 1
          /\ isOptimizationRunningRef
          /\ Progressed(r) ) => runs'[r].phase = 1 ]_vars

\* C22: in Phase 1 of part2 the current is raised, by 1 mA and not above
\* maxCurrent, only when the iterations before the one that raises it were
\* below the threshold too (the stable count it resumes with is 0), and the
\* counters are 0 after the increment.
C22_IncrementOnlyAfterIneffectiveIterations ==
  [][ \A r \in Slots :
        ( /\ ver = "part2" /\ runs[r].phase = 1 /\ runs'[r].phase = 1
          /\ runs'[r].I_k > runs[r].I_k ) =>
            /\ runs[r].stableGradientCount = 0
            /\ runs'[r].I_k = runs[r].I_k + UnitsPerMilliamp
            /\ runs'[r].I_k <= runs[r].maxCurrent
            /\ runs'[r].triesAtCurrentLevel = 0
            /\ runs'[r].stableGradientCount = 0 ]_vars

\* C23: a Phase 2 iteration declares a winner exactly when, after its score
\* is recorded, every electrode has the minimum usage and the mean average of
\* the four highest-ranked electrodes exceeds that of the other five by more
\* than the margin; otherwise the loop goes on while the run flag is set.
C23_WinnerIffGateAndGap ==
  [][ \A r \in Slots :
        ( /\ HasPhases /\ runs[r].phase = 2 /\ runs[r].pc = "p2Settle"
          /\ Progressed(r) ) =>
            LET tracker == runs'[r].statsTracker
                declares == /\ AllElectrodesTriedMinimumTimes(tracker, MinUsage)
                            /\ scoreGapCondition(tracker)
            IN /\ runs'[r].best.set <=> declares
               /\ (~declares /\ isOptimizationRunningRef) =>
                     runs'[r].pc \in {"p2Write", "p2Settle"} ]_vars

C25_PairIndexInRange ==
  \A r \in Slots :
    runs[r].pc # "idle" =>
      /\ runs[r].currentPairIndex \in 0 .. numPairs - 1
      /\ runs[r].perturbedIndex \in 0 .. numPairs - 1
      /\ runs[r].pair[1] \in Electrodes /\ runs[r].pair[2] \in Electrodes
      /\ runs[r].pair[1] # runs[r].pair[2]

\* two perturbations with the largest noise took the index from 0 to the last
\* pair, where it was clamped
C25_Witness ==
  \E r \in Slots :
    /\ runs[r].pc = "perturb" /\ runs[r].draws = 2
    /\ runs[r].perturbedIndex = numPairs - 1 /\ runs[r].pair = <<8, 9>>

\* C26: each channel holds at most maxHistory samples, the channels have the
\* same length, and they hold the most recent samples received, in arrival
\* order: the last min(maxHistory, arrived) of them.
C26_HistoryIsMostRecentSamples ==
  LET kept == Len(imuData.imu1_changes)
  IN /\ kept <= maxHistory
     /\ Len(imuData.imu2_changes) = kept
     /\ kept = Min(maxHistory, imuData.arrived)
     /\ \A i \in 1 .. kept :
          /\ imuData.imu1_changes[i] = imuData.arrived - kept + i
          /\ imuData.imu2_changes[i] = 2 * (imuData.arrived - kept + i)

\* C27: from the creation of the tracker to the end of the run (record,
\* stopping test, export, final disable) no step lowers the usage count of an
\* electrode or removes its entry.
C27_UsageNeverDecreases ==
  [][ \A r \in Slots :
        (HasPhases /\ runs[r].phase = 2 /\ runs'[r].phase = 2) =>
          \A e \in DOMAIN runs[r].statsTracker :
            /\ e \in DOMAIN runs'[r].statsTracker
            /\ runs'[r].statsTracker[e].usage >= runs[r].statsTracker[e].usage ]_vars

\* a run that recorded pairs, exported and is sending its final disable
C27_Witness ==
  \E r \in Slots :
    /\ HasPhases /\ runs[r].phase = 2 /\ runs[r].pc = "finalStop"
    /\ runs[r].exported # "none"
    /\ \E e \in Electrodes : runs[r].statsTracker[e].usage >= 2

\* C28: recording the score of a pair adds one usage and the score to the two
\* electrodes of the pair and leaves the other seven as they were; the
\* stopping test that follows in the same iteration, and every other step of
\* Phase 2, leaves the tracker as it is.
C28_RecordChangesOnlyThePair ==
  [][ \A r \in Slots :
        (HasPhases /\ runs[r].phase = 2 /\ runs'[r].phase = 2) =>
          LET old == runs[r].statsTracker
              new == runs'[r].statsTracker
              pair == runs[r].pair
              score == Activation(env.profile, pair)
          IN IF runs[r].pc = "p2Settle" /\ Progressed(r)
             THEN \A e \in Electrodes :
                    IF e \in {pair[1], pair[2]}
                    THEN /\ new[e].usage = old[e].usage + 1
                         /\ new[e].aggregatedScore = old[e].aggregatedScore + score
                         /\ new[e].scores = Append(old[e].scores, score)
                    ELSE new[e] = old[e]
             ELSE new = old ]_vars

\* the first record of a run: two electrodes used once with a positive score,
\* seven untouched
C28_Witness ==
  \E r \in Slots :
    /\ HasPhases /\ runs[r].phase = 2 /\ runs[r].surveyed = 1
    /\ Cardinality({ e \in Electrodes :
                       /\ runs[r].statsTracker[e].usage = 1
                       /\ runs[r].statsTracker[e].aggregatedScore > 0 }) = 2
    /\ Cardinality({ e \in Electrodes :
                       runs[r].statsTracker[e] = createElectrodeStatsTracker(numElectrodes)[e] }) = 7

\* C29: a run that leaves the Phase 2 loop starts the export once, with the
\* tracker as it is at that moment; the attempt settles once; the run goes to
\* its final stop, and sends its disable command, only with the export
\* settled and the tracker still as exported.
C29_ExportOnceBeforeFinalDisable ==
  [][ \A r \in Slots :
        (HasPhases /\ runs'[r].phase = 2) =>
          /\ (runs'[r].pc = "export" /\ runs[r].pc # "export") =>
                /\ runs[r].exported = "none" /\ runs'[r].exported = "none"
                /\ runs'[r].body = runs'[r].statsTracker
          /\ (runs'[r].exported # "none" /\ runs'[r].exported # runs[r].exported) =>
                runs[r].pc = "export" /\ runs[r].exported = "none"
          /\ runs'[r].pc \in {"finalStop", "done"} =>
                /\ runs'[r].exported # "none"
                /\ runs'[r].body = runs'[r].statsTracker
          /\ (lastCmd' # lastCmd /\ lastCmd' = DisableBy(r)) =>
                runs'[r].exported # "none" ]_vars

\* a run cancelled during Phase 1 that exported the empty tracker and sent
\* its final disable
C29_Witness ==
  \E r \in Slots :
    /\ HasPhases /\ runs[r].phase = 2 /\ runs[r].surveyed = 0
    /\ runs[r].exported = "saved" /\ runs[r].pc = "finalStop"
    /\ runs[r].body = createElectrodeStatsTracker(numElectrodes)
    /\ lastCmd = DisableBy(r)

\* C30: every actuator command is six bytes starting with 'e'; a stimulate
\* command has the enable byte 1 and the reserved byte 0; the disable command
\* has the byte 0 for current, both electrodes, enable flag and reserved byte.
C30_SixByteCommandsNumericDisable ==
  lastCmd.kind \in {"stim", "disable"} =>
    /\ Len(lastCmd.bytes) = 6
    /\ lastCmd.bytes[1] = CharCode("e")
    /\ lastCmd.kind = "stim" => lastCmd.bytes[5] = 1 /\ lastCmd.bytes[6] = 0
    /\ lastCmd.kind = "disable" => \A i \in 2 .. 6 : lastCmd.bytes[i] = 0

\* C31: a notification whose payload length is not a multiple of 4 leaves
\* both channels as they were, and a well-formed notification is processed
\* whatever came before it: each channel receives its length / 4 samples.
C31_MalformedPayloadLeavesWindow ==
  [][ imuData'.received # imuData.received =>
        IF imuData'.length % 4 # 0
        THEN /\ imuData'.imu1_changes = imuData.imu1_changes
             /\ imuData'.imu2_changes = imuData.imu2_changes
             /\ imuData'.arrived = imuData.arrived
        ELSE /\ imuData'.arrived = imuData.arrived + imuData'.length \div 4
             /\ imuData'.rejected = imuData.rejected
             /\ imuData'.imu1_changes # << >>
             /\ imuData'.imu1_changes[Len(imuData'.imu1_changes)] = imuData'.arrived ]_vars

\* a payload of 5 bytes was dropped, then one of 4 bytes gave the first sample
C31_Witness ==
  /\ imuData.received = 2 /\ imuData.rejected = 1
  /\ imuData.length = 4 /\ imuData.arrived = 1
  /\ imuData.imu1_changes = <<1>> /\ imuData.imu2_changes = <<2>>

\* C32: at most one notification handler is registered on the TX
\* characteristic, so that the window never holds more samples than the
\* device has sent.
C32_AtMostOneListener ==
  /\ Cardinality(provider.listeners) <= 1
  /\ Len(imuData.imu1_changes) <= imuData.arrived
  /\ Len(imuData.imu2_changes) <= imuData.arrived

\* C33: once initializeDevice has finished, by its last statement or by its
\* catch, isInitializingRef is false, and a notification that arrives then is
\* appended to the window.
C33_InitializingFlagCleared ==
  [][ provider.init \in {"done", "failed"} =>
        /\ ~provider.isInitializingRef
        /\ imuData'.received # imuData.received =>
              imuData'.arrived > imuData.arrived ]_vars

\* C34 (as amended): in Phase 1 of part2 the current starts at minCurrent,
\* never decreases, and changes only to min(maxCurrent, current + 1 mA): by one
\* milliamp, or by less when maxCurrent is nearer; each change is passed to
\* updateCurrentValue.
C34_Phase1CurrentStepsUpToMaximum ==
  [][ \A r \in Slots :
        ver = "part2" =>
          /\ (runs[r].phase # 1 /\ runs'[r].phase = 1) =>
                runs'[r].I_k = runs'[r].minCurrent
          /\ (runs[r].phase = 1 /\ runs'[r].phase \in {1, 2}) =>
                /\ runs'[r].I_k >= runs[r].I_k
                /\ runs'[r].I_k # runs[r].I_k =>
                      /\ runs'[r].I_k = Min(runs[r].maxCurrent,
                                            runs[r].I_k + UnitsPerMilliamp)
                      /\ runs'[r].shownCurrent = runs'[r].I_k ]_vars

\* a Phase 1 that went from 1 mA to 2 mA and then to its maximum of 2.5 mA
C34_Witness ==
  \E r \in Slots :
    /\ ver = "part2" /\ runs[r].phase = 1
    /\ runs[r].minCurrent = 2 /\ runs[r].maxCurrent = 5
    /\ runs[r].I_k = 5 /\ runs[r].shownCurrent = 5

\* C34 as stated: in Phase 1 of part2 the current starts at minCurrent, never
\* decreases, changes only by exactly one milliamp, and each change is passed
\* to updateCurrentValue.
C34_Phase1CurrentStepsByOne ==
  [][ \A r \in Slots :
        ver = "part2" =>
          /\ (runs[r].phase # 1 /\ runs'[r].phase = 1) =>
                runs'[r].I_k = runs'[r].minCurrent
          /\ (runs[r].phase = 1 /\ runs'[r].phase \in {1, 2}) =>
                /\ runs'[r].I_k >= runs[r].I_k
                /\ runs'[r].I_k # runs[r].I_k =>
                      /\ runs'[r].I_k = runs[r].I_k + UnitsPerMilliamp
                      /\ runs'[r].shownCurrent = runs'[r].I_k ]_vars

\* C35: a run calls updateBestPair and updateBestCurrent at most once each,
\* and together; once it has called them it sends no stimulate command.
C35_WinnerReportedOnce ==
  [][ \A r \in Slots :
        /\ runs'[r].bestPairCalls <= 1
        /\ runs'[r].bestCurrentCalls = runs'[r].bestPairCalls
        /\ (runs[r].bestPairCalls >= 1 /\ runs'[r].bestPairCalls >= 1) =>
              ~(lastCmd' # lastCmd /\ lastCmd'.kind = "stim" /\ lastCmd'.by = r) ]_vars

\* C36: once the device is disconnected, by disconnect() or unexpectedly,
\* isConnected is false and sendCommand writes no command.
C36_NoWriteAfterDisconnect ==
  [][ ~link.up => (~link.isConnected /\ lastCmd' = lastCmd) ]_vars

\* C37: for every electrode of every tracker, the length of the score history
\* is the usage count and aggregatedScore is the sum of the score history.
C37_HistoryMatchesUsageAndSum ==
  \A r \in Slots :
    \A e \in DOMAIN runs[r].statsTracker :
      LET stats == runs[r].statsTracker[e]
      IN /\ Len(stats.scores) = stats.usage
         /\ SumOf(stats.scores) = stats.aggregatedScore

\* an electrode recorded with a pair that scored 5 and a pair that scored 50
C37_Witness ==
  \E r \in Slots :
    \E e \in DOMAIN runs[r].statsTracker :
      LET stats == runs[r].statsTracker[e]
      IN /\ stats.usage >= 2
         /\ \E i, j \in 1 .. Len(stats.scores) : stats.scores[i] # stats.scores[j]
         /\ stats.aggregatedScore >= 55

=============================================================================
